---- MODULE Spec2Model ----
(***************************************************************************)
(* Draft-pick ownership ledger (scripts/verify-draft-board.py) and keeper  *)
(* acquisition tracer (scripts/validate-keeper-costs.py).                  *)
(*                                                                         *)
(* A Python exception is modelled as a returned record whose err field is  *)
(* not "none"; the board field of that record is the board as the raise    *)
(* leaves it.  The three ValueErrors of the ledger are told apart by their *)
(* message:                                                                 *)
(*   "NoPicksHeld"       "<owner> has NO picks in round <rd>!"             *)
(*   "OwnershipConflict" "CONFLICT ... is owned by <x>, not <from>!"       *)
(*   "NoMatchingPick"    "CONFLICT ... Cannot find round <rd> pick ..."    *)
(***************************************************************************)
EXTENDS Integers, Sequences, FiniteSets, TLC

VARIABLES
    picks,          \* DraftBoard.picks: round -> slot -> pick record
    call,           \* the last call made on the ledger, with its arguments
    ret,            \* what that call returned or raised
    ncalls,         \* number of calls made so far (bounded by MaxCalls)
    site,           \* the persisted snapshot (draft-board.json), as parsed JSON
    input,          \* a run's league and its two trade tables
    pc,             \* where main() stands
    pos,            \* index of the next move in the current trade table
    exported,       \* draft-board-verified.json as main() wrote it, or "none"
    transactions_2025, \* the entries of the transaction log processed so far
    history,        \* build_player_history's history: player_id -> record
    txns,           \* number of transaction entries the builder has processed
    acq,            \* the last trace_acquisition call and what it returned
    draft_2025,     \* the 2025 draft results: player_id -> {round, team_num}
    rosters_2024_end, \* the end-of-2024 rosters: team_num -> set of player ids
    keepers_2025,   \* player ids identified as kept in 2025
    priced,         \* the last calculate_keeper_cost call and what it returned
    report          \* main()'s counters and correction records

vars ==
    <<picks, call, ret, ncalls, site, input, pc, pos, exported, transactions_2025,
      history, txns, acq, draft_2025, rosters_2024_end, keepers_2025, priced, report>>

ledgerVars == <<picks, call, ret, ncalls, site>>
runVars == <<input, pc, pos, exported>>
costVars == <<draft_2025, rosters_2024_end, keepers_2025, priced, report>>
keeperVars == <<transactions_2025, history, txns, acq, costVars>>

-----------------------------------------------------------------------------
(* Program constants *)

DRAFT_ORDER ==
    <<"Pudge", "Nick", "Web", "Tom", "Tyler", "Thomas",
      "Chris", "Alex", "Greasy", "Bob", "Mike", "Sean">>

ROUNDS == 27

NA_ROUNDS == <<24, 25, 26, 27>>

-----------------------------------------------------------------------------
(* The hardcoded trade tables *)

\* `trades` of apply_yahoo_2025_trades.  "picks" == "USE_WORST" is the field
\* use_worst; picks and specific_picks hold (rd, orig_owner, from, to),
\* worst_picks holds (rd, from, to).
Yahoo2025Trades ==
    <<
      [id |-> "TX256", use_worst |-> FALSE,
       picks |-> <<<<6, "Alex", "Alex", "Mike">>,
                  <<7, "Alex", "Alex", "Mike">>,
                  <<8, "Alex", "Alex", "Mike">>,
                  <<9, "Alex", "Alex", "Mike">>,
                  <<10, "Alex", "Alex", "Mike">>,
                  <<11, "Alex", "Alex", "Mike">>,
                  <<18, "Mike", "Mike", "Alex">>,
                  <<19, "Mike", "Mike", "Alex">>,
                  <<20, "Mike", "Mike", "Alex">>,
                  <<21, "Mike", "Mike", "Alex">>,
                  <<22, "Mike", "Mike", "Alex">>,
                  <<23, "Mike", "Mike", "Alex">>>>,
       worst_picks |-> <<>>,
       specific_picks |-> <<>>],
      [id |-> "TX358", use_worst |-> FALSE,
       picks |-> <<<<22, "Bob", "Bob", "Chris">>,
                  <<12, "Chris", "Chris", "Bob">>>>,
       worst_picks |-> <<>>,
       specific_picks |-> <<>>],
      [id |-> "TX537", use_worst |-> FALSE,
       picks |-> <<<<20, "Bob", "Bob", "Nick">>,
                  <<12, "Nick", "Nick", "Bob">>>>,
       worst_picks |-> <<>>,
       specific_picks |-> <<>>],
      [id |-> "TX750", use_worst |-> FALSE,
       picks |-> <<<<16, "Bob", "Bob", "Greasy">>,
                  <<9, "Greasy", "Greasy", "Bob">>>>,
       worst_picks |-> <<>>,
       specific_picks |-> <<>>],
      [id |-> "TX803", use_worst |-> TRUE,
       picks |-> <<>>,
       worst_picks |-> <<<<12, "Bob", "Tom">>>>,
       specific_picks |-> <<<<15, "Tom", "Tom", "Bob">>>>],
      [id |-> "TX821", use_worst |-> TRUE,
       picks |-> <<>>,
       worst_picks |-> <<<<7, "Mike", "Nick">>,
                        <<8, "Mike", "Nick">>,
                        <<9, "Mike", "Nick">>>>,
       specific_picks |-> <<<<21, "Nick", "Nick", "Mike">>,
                           <<22, "Nick", "Nick", "Mike">>,
                           <<23, "Nick", "Nick", "Mike">>>>],
      [id |-> "TX840", use_worst |-> FALSE,
       picks |-> <<<<8, "Sean", "Sean", "Tom">>,
                  <<17, "Tom", "Tom", "Sean">>>>,
       worst_picks |-> <<>>,
       specific_picks |-> <<>>],
      [id |-> "TX881", use_worst |-> FALSE,
       picks |-> <<<<11, "Bob", "Bob", "Nick">>,
                  <<17, "Nick", "Nick", "Bob">>>>,
       worst_picks |-> <<>>,
       specific_picks |-> <<>>],
      [id |-> "TX983", use_worst |-> FALSE,
       picks |-> <<<<9, "Chris", "Chris", "Pudge">>,
                  <<20, "Pudge", "Pudge", "Chris">>>>,
       worst_picks |-> <<>>,
       specific_picks |-> <<>>],
      [id |-> "TX985", use_worst |-> FALSE,
       picks |-> <<<<14, "Bob", "Bob", "Nick">>,
                  <<20, "Nick", "Nick", "Bob">>>>,
       worst_picks |-> <<>>,
       specific_picks |-> <<>>],
      [id |-> "TX993", use_worst |-> FALSE,
       picks |-> <<<<10, "Chris", "Chris", "Nick">>,
                  <<19, "Nick", "Nick", "Chris">>>>,
       worst_picks |-> <<>>,
       specific_picks |-> <<>>],
      [id |-> "TX995", use_worst |-> FALSE,
       picks |-> <<<<20, "Web", "Web", "Mike">>,
                  <<17, "Mike", "Mike", "Web">>>>,
       worst_picks |-> <<>>,
       specific_picks |-> <<>>],
      [id |-> "TX996", use_worst |-> FALSE,
       picks |-> <<<<9, "Bob", "Bob", "Web">>,
                  <<10, "Bob", "Bob", "Web">>,
                  <<21, "Web", "Web", "Bob">>,
                  <<23, "Web", "Web", "Bob">>>>,
       worst_picks |-> <<>>,
       specific_picks |-> <<>>],
      [id |-> "TX1003", use_worst |-> FALSE,
       picks |-> <<<<19, "Web", "Web", "Bob">>,
                  <<12, "Nick", "Bob", "Web">>>>,
       worst_picks |-> <<>>,
       specific_picks |-> <<>>],
      [id |-> "TX1004", use_worst |-> FALSE,
       picks |-> <<<<23, "Mike", "Alex", "Chris">>,
                  <<7, "Chris", "Chris", "Alex">>>>,
       worst_picks |-> <<>>,
       specific_picks |-> <<>>]
    >>

\* `trades` of apply_offseason_trades (OS0..OS13; OS14 is skipped by the code).
\* A move without "slot" or "originalOwner" has slot 0 or originalOwner "".
OffseasonTrades ==
    <<
      [id |-> "OS0",
       moves |-> <<[type |-> "worst", round |-> 9, slot |-> 0, originalOwner |-> "", from |-> "Bob", to |-> "Chris"],
                  [type |-> "worst", round |-> 13, slot |-> 0, originalOwner |-> "", from |-> "Chris", to |-> "Bob"]>>],
      [id |-> "OS1",
       moves |-> <<[type |-> "worst", round |-> 13, slot |-> 0, originalOwner |-> "", from |-> "Sean", to |-> "Alex"],
                  [type |-> "worst", round |-> 7, slot |-> 0, originalOwner |-> "", from |-> "Alex", to |-> "Sean"]>>],
      [id |-> "OS2",
       moves |-> <<[type |-> "worst", round |-> 18, slot |-> 0, originalOwner |-> "", from |-> "Greasy", to |-> "Sean"],
                  [type |-> "worst", round |-> 7, slot |-> 0, originalOwner |-> "", from |-> "Sean", to |-> "Greasy"]>>],
      [id |-> "OS3",
       moves |-> <<[type |-> "worst", round |-> 18, slot |-> 0, originalOwner |-> "", from |-> "Alex", to |-> "Tyler"],
                  [type |-> "worst", round |-> 19, slot |-> 0, originalOwner |-> "", from |-> "Alex", to |-> "Tyler"],
                  [type |-> "worst", round |-> 20, slot |-> 0, originalOwner |-> "", from |-> "Alex", to |-> "Tyler"],
                  [type |-> "worst", round |-> 6, slot |-> 0, originalOwner |-> "", from |-> "Tyler", to |-> "Alex"],
                  [type |-> "worst", round |-> 9, slot |-> 0, originalOwner |-> "", from |-> "Tyler", to |-> "Alex"],
                  [type |-> "worst", round |-> 13, slot |-> 0, originalOwner |-> "", from |-> "Tyler", to |-> "Alex"]>>],
      [id |-> "OS4",
       moves |-> <<[type |-> "worst", round |-> 19, slot |-> 0, originalOwner |-> "", from |-> "Alex", to |-> "Nick"],
                  [type |-> "worst", round |-> 20, slot |-> 0, originalOwner |-> "", from |-> "Alex", to |-> "Nick"],
                  [type |-> "worst", round |-> 21, slot |-> 0, originalOwner |-> "", from |-> "Alex", to |-> "Nick"],
                  [type |-> "worst", round |-> 22, slot |-> 0, originalOwner |-> "", from |-> "Alex", to |-> "Nick"],
                  [type |-> "worst", round |-> 23, slot |-> 0, originalOwner |-> "", from |-> "Alex", to |-> "Nick"],
                  [type |-> "worst", round |-> 7, slot |-> 0, originalOwner |-> "", from |-> "Nick", to |-> "Alex"],
                  [type |-> "worst", round |-> 8, slot |-> 0, originalOwner |-> "", from |-> "Nick", to |-> "Alex"],
                  [type |-> "worst", round |-> 9, slot |-> 0, originalOwner |-> "", from |-> "Nick", to |-> "Alex"],
                  [type |-> "worst", round |-> 10, slot |-> 0, originalOwner |-> "", from |-> "Nick", to |-> "Alex"],
                  [type |-> "worst", round |-> 11, slot |-> 0, originalOwner |-> "", from |-> "Nick", to |-> "Alex"]>>],
      [id |-> "OS5",
       moves |-> <<[type |-> "worst", round |-> 15, slot |-> 0, originalOwner |-> "", from |-> "Alex", to |-> "Mike"],
                  [type |-> "worst", round |-> 12, slot |-> 0, originalOwner |-> "", from |-> "Mike", to |-> "Alex"]>>],
      [id |-> "OS6",
       moves |-> <<[type |-> "worst", round |-> 21, slot |-> 0, originalOwner |-> "", from |-> "Mike", to |-> "Tyler"],
                  [type |-> "worst", round |-> 22, slot |-> 0, originalOwner |-> "", from |-> "Mike", to |-> "Tyler"],
                  [type |-> "worst", round |-> 23, slot |-> 0, originalOwner |-> "", from |-> "Mike", to |-> "Tyler"],
                  [type |-> "worst", round |-> 7, slot |-> 0, originalOwner |-> "", from |-> "Tyler", to |-> "Mike"],
                  [type |-> "worst", round |-> 8, slot |-> 0, originalOwner |-> "", from |-> "Tyler", to |-> "Mike"],
                  [type |-> "worst", round |-> 10, slot |-> 0, originalOwner |-> "", from |-> "Tyler", to |-> "Mike"]>>],
      [id |-> "OS7",
       moves |-> <<[type |-> "worst", round |-> 11, slot |-> 0, originalOwner |-> "", from |-> "Chris", to |-> "Bob"],
                  [type |-> "worst", round |-> 7, slot |-> 0, originalOwner |-> "", from |-> "Bob", to |-> "Chris"]>>],
      [id |-> "OS8",
       moves |-> <<[type |-> "worst", round |-> 4, slot |-> 0, originalOwner |-> "", from |-> "Thomas", to |-> "Tyler"],
                  [type |-> "worst", round |-> 6, slot |-> 0, originalOwner |-> "", from |-> "Thomas", to |-> "Tyler"],
                  [type |-> "worst", round |-> 8, slot |-> 0, originalOwner |-> "", from |-> "Thomas", to |-> "Tyler"],
                  [type |-> "worst", round |-> 23, slot |-> 0, originalOwner |-> "", from |-> "Thomas", to |-> "Tyler"],
                  [type |-> "worst", round |-> 1, slot |-> 0, originalOwner |-> "", from |-> "Tyler", to |-> "Thomas"],
                  [type |-> "worst", round |-> 11, slot |-> 0, originalOwner |-> "", from |-> "Tyler", to |-> "Thomas"],
                  [type |-> "worst", round |-> 12, slot |-> 0, originalOwner |-> "", from |-> "Tyler", to |-> "Thomas"],
                  [type |-> "worst", round |-> 14, slot |-> 0, originalOwner |-> "", from |-> "Tyler", to |-> "Thomas"]>>],
      [id |-> "OS9",
       moves |-> <<[type |-> "worst", round |-> 8, slot |-> 0, originalOwner |-> "", from |-> "Nick", to |-> "Alex"],
                  [type |-> "worst", round |-> 22, slot |-> 0, originalOwner |-> "", from |-> "Alex", to |-> "Nick"]>>],
      [id |-> "OS10",
       moves |-> <<[type |-> "worst", round |-> 20, slot |-> 0, originalOwner |-> "", from |-> "Mike", to |-> "Alex"],
                  [type |-> "worst", round |-> 13, slot |-> 0, originalOwner |-> "", from |-> "Alex", to |-> "Mike"]>>],
      [id |-> "OS11",
       moves |-> <<[type |-> "worst", round |-> 13, slot |-> 0, originalOwner |-> "", from |-> "Alex", to |-> "Tom"],
                  [type |-> "worst", round |-> 18, slot |-> 0, originalOwner |-> "", from |-> "Alex", to |-> "Tom"],
                  [type |-> "worst", round |-> 8, slot |-> 0, originalOwner |-> "", from |-> "Tom", to |-> "Alex"],
                  [type |-> "worst", round |-> 10, slot |-> 0, originalOwner |-> "", from |-> "Tom", to |-> "Alex"]>>],
      [id |-> "OS12",
       moves |-> <<[type |-> "specific_slot", round |-> 8, slot |-> 8, originalOwner |-> "", from |-> "Alex", to |-> "Tyler"],
                  [type |-> "specific_slot", round |-> 10, slot |-> 4, originalOwner |-> "", from |-> "Alex", to |-> "Tyler"],
                  [type |-> "specific_slot", round |-> 2, slot |-> 5, originalOwner |-> "", from |-> "Tyler", to |-> "Alex"],
                  [type |-> "specific_slot", round |-> 6, slot |-> 6, originalOwner |-> "", from |-> "Tyler", to |-> "Alex"]>>],
      [id |-> "OS13",
       moves |-> <<[type |-> "specific_slot", round |-> 7, slot |-> 11, originalOwner |-> "", from |-> "Alex", to |-> "Pudge"],
                  [type |-> "specific_slot", round |-> 20, slot |-> 3, originalOwner |-> "", from |-> "Alex", to |-> "Pudge"],
                  [type |-> "specific_slot", round |-> 11, slot |-> 1, originalOwner |-> "", from |-> "Pudge", to |-> "Alex"],
                  [type |-> "specific_slot", round |-> 23, slot |-> 1, originalOwner |-> "", from |-> "Pudge", to |-> "Alex"]>>]
    >>

-----------------------------------------------------------------------------
(* Bounds of the model *)

\* League used when the ledger's methods are called freely: the first
\* NumSlots managers of DRAFT_ORDER and rounds 1..NumRounds (one odd, one even).
NumSlots == 3
NumRounds == 2
\* Number of ledger calls in one behaviour.
MaxCalls == 2
\* Number of moves in a generated trade list (both tables together).
MaxMoves == 2
\* Number of transaction entries the history builder processes.
MaxTxns == 3
\* Draft rounds a player of the 2025 draft is taken in: 1..MaxDraftRound.
MaxDraftRound == 2
\* Ranks looked up when ecr_to_round is exercised on its own: 1..MaxRank.
MaxRank == 300

-----------------------------------------------------------------------------
(* Helpers standing for Python built-ins *)

SetMax(S) == CHOOSE x \in S : \A y \in S : y <= x
SetMin(S) == CHOOSE x \in S : \A y \in S : x <= y

Range(s) == {s[i] : i \in DOMAIN s}

\* sorted(slots)
RECURSIVE Sorted(_)
Sorted(S) ==
    IF S = {} THEN <<>>
    ELSE LET m == SetMin(S) IN <<m>> \o Sorted(S \ {m})

-----------------------------------------------------------------------------
(* DraftBoard *)

\* DraftBoard.__init__ for a draft order and a number of rounds.
NewBoard(order, rounds) ==
    [rd \in 1..rounds |->
        [slot \in 1..Len(order) |->
            [originalOwner |-> order[slot],
             currentOwner  |-> order[slot],
             path          |-> <<order[slot]>>]]]

RoundsOf(b) == DOMAIN b
SlotsOf(b, rd) == DOMAIN b[rd]
ManagersOf(b) == {b[1][s].originalOwner : s \in DOMAIN b[1]}

get_owner_picks_in_round(b, owner, rd) ==
    Sorted({slot \in SlotsOf(b, rd) : b[rd][slot].currentOwner = owner})

\* get_worst_pick without the parity test: the highest slot in every round.
get_worst_pick_no_snake(b, owner, rd) ==
    LET slots == get_owner_picks_in_round(b, owner, rd) IN
    IF slots = <<>>
    THEN [err |-> "NoPicksHeld", slot |-> 0]
    ELSE [err |-> "none", slot |-> SetMax(Range(slots))]

get_worst_pick(b, owner, rd) ==
    LET slots == get_owner_picks_in_round(b, owner, rd) IN
    IF slots = <<>>
    THEN [err |-> "NoPicksHeld", slot |-> 0]
    ELSE IF rd % 2 = 1
         THEN [err |-> "none", slot |-> SetMax(Range(slots))]
         ELSE [err |-> "none", slot |-> SetMin(Range(slots))]

\* transfer_pick with the path appended before the ownership test.
transfer_pick_late_check(b, rd, slot, from_owner, to_owner) ==
    LET pick == b[rd][slot]
        b1 == [b EXCEPT ![rd][slot].path = Append(@, to_owner)] IN
    IF pick.currentOwner # from_owner
    THEN [err |-> "OwnershipConflict", slot |-> slot, board |-> b1]
    ELSE [err |-> "none", slot |-> slot,
          board |-> [b1 EXCEPT ![rd][slot].currentOwner = to_owner]]

\* transfer_pick that forgets the path.
transfer_pick_no_path(b, rd, slot, from_owner, to_owner) ==
    LET pick == b[rd][slot] IN
    IF pick.currentOwner # from_owner
    THEN [err |-> "OwnershipConflict", slot |-> slot, board |-> b]
    ELSE [err |-> "none", slot |-> slot,
          board |-> [b EXCEPT ![rd][slot].currentOwner = to_owner]]

\* transfer_pick storing list.append's result (None) as the owner.
transfer_pick_none_owner(b, rd, slot, from_owner, to_owner) ==
    LET pick == b[rd][slot] IN
    IF pick.currentOwner # from_owner
    THEN [err |-> "OwnershipConflict", slot |-> slot, board |-> b]
    ELSE [err |-> "none", slot |-> slot,
          board |-> [b EXCEPT ![rd][slot].currentOwner = "None",
                              ![rd][slot].path = Append(@, to_owner)]]

\* transfer_pick relabelling the pick as the receiver's own.
transfer_pick_relabels(b, rd, slot, from_owner, to_owner) ==
    LET pick == b[rd][slot] IN
    IF pick.currentOwner # from_owner
    THEN [err |-> "OwnershipConflict", slot |-> slot, board |-> b]
    ELSE [err |-> "none", slot |-> slot,
          board |-> [b EXCEPT ![rd][slot].originalOwner = to_owner,
                              ![rd][slot].currentOwner = to_owner,
                              ![rd][slot].path = Append(@, to_owner)]]

\* transfer_pick writing the path anew from the two owners of the move.
transfer_pick_path_reset(b, rd, slot, from_owner, to_owner) ==
    LET pick == b[rd][slot] IN
    IF pick.currentOwner # from_owner
    THEN [err |-> "OwnershipConflict", slot |-> slot, board |-> b]
    ELSE [err |-> "none", slot |-> slot,
          board |-> [b EXCEPT ![rd][slot].currentOwner = to_owner,
                              ![rd][slot].path = <<pick.originalOwner, to_owner>>]]

transfer_pick(b, rd, slot, from_owner, to_owner) ==
    LET pick == b[rd][slot] IN
    IF pick.currentOwner # from_owner
    THEN [err |-> "OwnershipConflict", slot |-> slot, board |-> b]
    ELSE [err |-> "none", slot |-> slot,
          board |-> [b EXCEPT ![rd][slot].currentOwner = to_owner,
                              ![rd][slot].path = Append(@, to_owner)]]

\* transfer_worst_pick passing the two owners to transfer_pick in the wrong order.
transfer_worst_pick_swapped(b, rd, from_owner, to_owner) ==
    LET w == get_worst_pick(b, from_owner, rd) IN
    IF w.err # "none"
    THEN [err |-> w.err, slot |-> 0, board |-> b]
    ELSE transfer_pick(b, rd, w.slot, to_owner, from_owner)

transfer_worst_pick(b, rd, from_owner, to_owner) ==
    LET w == get_worst_pick(b, from_owner, rd) IN
    IF w.err # "none"
    THEN [err |-> w.err, slot |-> 0, board |-> b]
    ELSE transfer_pick(b, rd, w.slot, from_owner, to_owner)

\* The scan matching on the original owner alone.
RECURSIVE ScanSpecific_orig_only(_, _, _, _, _, _)
ScanSpecific_orig_only(b, rd, original_owner, from_owner, to_owner, slot) ==
    IF slot \notin SlotsOf(b, rd)
    THEN [err |-> "NoMatchingPick", slot |-> 0, board |-> b]
    ELSE IF b[rd][slot].originalOwner = original_owner
         THEN transfer_pick(b, rd, slot, from_owner, to_owner)
         ELSE ScanSpecific_orig_only(b, rd, original_owner, from_owner, to_owner, slot + 1)

\* The for loop of transfer_specific_pick from `slot` on: picks[rd] was
\* filled in slot order, so items() yields slots 1, 2, ...
RECURSIVE ScanSpecific(_, _, _, _, _, _)
ScanSpecific(b, rd, original_owner, from_owner, to_owner, slot) ==
    IF slot \notin SlotsOf(b, rd)
    THEN [err |-> "NoMatchingPick", slot |-> 0, board |-> b]
    ELSE IF /\ b[rd][slot].originalOwner = original_owner
            /\ b[rd][slot].currentOwner = from_owner
         THEN transfer_pick(b, rd, slot, from_owner, to_owner)
         ELSE ScanSpecific(b, rd, original_owner, from_owner, to_owner, slot + 1)

transfer_specific_pick(b, rd, original_owner, from_owner, to_owner) ==
    ScanSpecific(b, rd, original_owner, from_owner, to_owner, 1)

\* An entry exported with the pick's first holder as its current one.
JsonPick_stale_owner(b, rd, slot) ==
    [slot          |-> slot,
     originalOwner |-> b[rd][slot].originalOwner,
     currentOwner  |-> b[rd][slot].path[1],
     traded        |-> b[rd][slot].originalOwner # b[rd][slot].currentOwner,
     path          |-> b[rd][slot].path]

\* One entry of a round's list in the exported JSON.
JsonPick(b, rd, slot) ==
    [slot          |-> slot,
     originalOwner |-> b[rd][slot].originalOwner,
     currentOwner  |-> b[rd][slot].currentOwner,
     traded        |-> b[rd][slot].originalOwner # b[rd][slot].currentOwner,
     path          |-> b[rd][slot].path]

\* DraftBoard.to_json, over the rounds and slots of board b (the code's
\* range(1, ROUNDS + 1) and range(1, 13)).  "picks" is keyed by str(rd).
to_json(b) ==
    [draftOrder |-> [s \in SlotsOf(b, 1) |-> b[1][s].originalOwner],
     rounds     |-> Cardinality(RoundsOf(b)),
     naRounds   |-> NA_ROUNDS,
     picks      |-> [key \in {ToString(rd) : rd \in RoundsOf(b)} |->
                        LET rd == CHOOSE r \in RoundsOf(b) : ToString(r) = key IN
                        [slot \in SlotsOf(b, rd) |-> JsonPick(b, rd, slot)]]]

-----------------------------------------------------------------------------
(* compare_with_site *)

\* site_picks = {p["slot"]: p for p in site["picks"][str(rd)]}: the entry of
\* the round's list that carries this slot number (the last one, if several).
SitePick(snapshot, rd, slot) ==
    LET lst == snapshot.picks[ToString(rd)]
        idx == {i \in DOMAIN lst : lst[i].slot = slot}
    IN lst[SetMax(idx)]

Discrepancy(b, snapshot, rd, slot) ==
    [round         |-> rd,
     slot          |-> slot,
     originalOwner |-> b[rd][slot].originalOwner,
     script_says   |-> b[rd][slot].currentOwner,
     site_says     |-> SitePick(snapshot, rd, slot).currentOwner,
     script_path   |-> b[rd][slot].path,
     site_path     |-> SitePick(snapshot, rd, slot).path]

\* The inner loop comparing against the snapshot's originalOwner.
RECURSIVE CompareSlots_orig(_, _, _, _)
CompareSlots_orig(b, snapshot, rd, slot) ==
    IF slot \notin SlotsOf(b, rd) THEN <<>>
    ELSE (IF b[rd][slot].currentOwner # SitePick(snapshot, rd, slot).originalOwner
          THEN <<Discrepancy(b, snapshot, rd, slot)>>
          ELSE <<>>) \o CompareSlots_orig(b, snapshot, rd, slot + 1)

\* The inner loop of compare_with_site over the slots of round rd, from `slot` on.
RECURSIVE CompareSlots(_, _, _, _)
CompareSlots(b, snapshot, rd, slot) ==
    IF slot \notin SlotsOf(b, rd) THEN <<>>
    ELSE (IF b[rd][slot].currentOwner # SitePick(snapshot, rd, slot).currentOwner
          THEN <<Discrepancy(b, snapshot, rd, slot)>>
          ELSE <<>>) \o CompareSlots(b, snapshot, rd, slot + 1)

\* The outer loop over the rounds, from rd on.
RECURSIVE CompareRounds(_, _, _)
CompareRounds(b, snapshot, rd) ==
    IF rd \notin RoundsOf(b) THEN <<>>
    ELSE CompareSlots(b, snapshot, rd, 1) \o CompareRounds(b, snapshot, rd + 1)

compare_with_site(b, snapshot) == CompareRounds(b, snapshot, 1)

-----------------------------------------------------------------------------
(* The ledger's methods called freely on a small league *)

SmallOrder == SubSeq(DRAFT_ORDER, 1, NumSlots)
SmallBoard == NewBoard(SmallOrder, NumRounds)

NoInput == [order |-> <<>>, rounds |-> 0, yahoo |-> <<>>, offseason |-> <<>>]
NoCall == [op |-> "none", rd |-> 0, slot |-> 0, orig |-> "", from |-> "", to |-> ""]
NoRet == [err |-> "none", slot |-> 0, disc |-> <<>>]

\* history = {} and no trace_acquisition call made.
NoHistory == [pid \in {} |-> <<>>]
NoAcq == [player_id |-> "", current_team_num |-> "", result |-> [method |-> ""]]
\* No roster loaded.
NoRosters == [team_num \in {} |-> {}]
\* No calculate_keeper_cost call made; main()'s counters before its loop.
NoPriced == [keeper |-> [keeper_status |-> ""], ecr_rank |-> 0, calc |-> [cost |-> 0]]
NoReport == [matches |-> 0, mismatches |-> 0, skipped |-> 0, corrections |-> <<>>]
KeeperIdle ==
    /\ transactions_2025 = <<>>
    /\ history = NoHistory /\ txns = 0 /\ acq = NoAcq
    /\ draft_2025 = NoHistory /\ rosters_2024_end = NoRosters /\ keepers_2025 = {}
    /\ priced = NoPriced /\ report = NoReport

Init ==
    /\ picks = SmallBoard
    /\ call = NoCall
    /\ ret = NoRet
    /\ ncalls = 0
    /\ site = to_json(SmallBoard)
    /\ input = NoInput
    /\ pc = "api"
    /\ pos = 0
    /\ exported = "none"
    /\ KeeperIdle

CallTransferPick ==
    /\ ncalls < MaxCalls
    /\ \E rd \in RoundsOf(picks) : \E slot \in SlotsOf(picks, rd) :
       \E from_owner \in ManagersOf(picks) : \E to_owner \in ManagersOf(picks) :
          LET r == transfer_pick(picks, rd, slot, from_owner, to_owner) IN
          /\ picks' = r.board
          /\ call' = [op |-> "transfer_pick", rd |-> rd, slot |-> slot, orig |-> "",
                      from |-> from_owner, to |-> to_owner]
          /\ ret' = [err |-> r.err, slot |-> r.slot, disc |-> <<>>]
    /\ ncalls' = ncalls + 1
    /\ site' = site
    /\ UNCHANGED <<runVars, keeperVars>>

CallTransferWorstPick ==
    /\ ncalls < MaxCalls
    /\ \E rd \in RoundsOf(picks) :
       \E from_owner \in ManagersOf(picks) : \E to_owner \in ManagersOf(picks) :
          LET r == transfer_worst_pick(picks, rd, from_owner, to_owner) IN
          /\ picks' = r.board
          /\ call' = [op |-> "transfer_worst_pick", rd |-> rd, slot |-> 0, orig |-> "",
                      from |-> from_owner, to |-> to_owner]
          /\ ret' = [err |-> r.err, slot |-> r.slot, disc |-> <<>>]
    /\ ncalls' = ncalls + 1
    /\ site' = site
    /\ UNCHANGED <<runVars, keeperVars>>

CallTransferSpecificPick ==
    /\ ncalls < MaxCalls
    /\ \E rd \in RoundsOf(picks) : \E original_owner \in ManagersOf(picks) :
       \E from_owner \in ManagersOf(picks) : \E to_owner \in ManagersOf(picks) :
          LET r == transfer_specific_pick(picks, rd, original_owner, from_owner, to_owner) IN
          /\ picks' = r.board
          /\ call' = [op |-> "transfer_specific_pick", rd |-> rd, slot |-> 0,
                      orig |-> original_owner, from |-> from_owner, to |-> to_owner]
          /\ ret' = [err |-> r.err, slot |-> r.slot, disc |-> <<>>]
    /\ ncalls' = ncalls + 1
    /\ site' = site
    /\ UNCHANGED <<runVars, keeperVars>>

CallGetWorstPick ==
    /\ ncalls < MaxCalls
    /\ \E rd \in RoundsOf(picks) : \E owner \in ManagersOf(picks) :
          LET w == get_worst_pick(picks, owner, rd) IN
          /\ call' = [op |-> "get_worst_pick", rd |-> rd, slot |-> 0, orig |-> "",
                      from |-> owner, to |-> ""]
          /\ ret' = [err |-> w.err, slot |-> w.slot, disc |-> <<>>]
    /\ picks' = picks
    /\ ncalls' = ncalls + 1
    /\ site' = site
    /\ UNCHANGED <<runVars, keeperVars>>

\* The persisted snapshot is maintained outside the ledger: one of its picks
\* is recorded as moved to another manager.
SiteEdit ==
    /\ ncalls < MaxCalls
    /\ \E rd \in RoundsOf(picks) : \E slot \in SlotsOf(picks, rd) :
       \E owner \in ManagersOf(picks) :
          LET key == ToString(rd)
              old == site.picks[key][slot] IN
          /\ owner # old.currentOwner
          /\ site' = [site EXCEPT !.picks[key][slot] =
                        [old EXCEPT !.currentOwner = owner,
                                    !.traded = (old.originalOwner # owner),
                                    !.path = Append(old.path, owner)]]
    /\ call' = NoCall
    /\ ret' = NoRet
    /\ picks' = picks
    /\ ncalls' = ncalls + 1
    /\ UNCHANGED <<runVars, keeperVars>>

CallCompareWithSite ==
    /\ ncalls < MaxCalls
    /\ call' = [NoCall EXCEPT !.op = "compare_with_site"]
    /\ ret' = [NoRet EXCEPT !.disc = compare_with_site(picks, site)]
    /\ picks' = picks
    /\ site' = site
    /\ UNCHANGED <<runVars, keeperVars>>
    /\ ncalls' = ncalls + 1

Next ==
    \/ CallTransferPick
    \/ CallTransferWorstPick
    \/ CallTransferSpecificPick
    \/ CallGetWorstPick

Spec == Init /\ [][Next]_vars

\* The comparator against a snapshot that drifts from the ledger.
NextCompare ==
    \/ CallTransferWorstPick
    \/ SiteEdit
    \/ CallCompareWithSite

SpecCompare == Init /\ [][NextCompare]_vars

-----------------------------------------------------------------------------
(* The trade sequencer: the loops of apply_yahoo_2025_trades and          *)
(* apply_offseason_trades, and main() around them                          *)

WorstMove(rd, from_owner, to_owner) ==
    [type |-> "worst", round |-> rd, slot |-> 0, originalOwner |-> "",
     from |-> from_owner, to |-> to_owner]

SpecificMove(rd, orig_owner, from_owner, to_owner) ==
    [type |-> "specific_orig", round |-> rd, slot |-> 0, originalOwner |-> orig_owner,
     from |-> from_owner, to |-> to_owner]

\* The moves of one Yahoo trade in the order its branch of the loop makes
\* them: worst_picks then specific_picks under USE_WORST, else picks.
YahooMoves(trade) ==
    IF trade.use_worst
    THEN [i \in DOMAIN trade.worst_picks |->
             WorstMove(trade.worst_picks[i][1], trade.worst_picks[i][2],
                       trade.worst_picks[i][3])]
         \o [i \in DOMAIN trade.specific_picks |->
             SpecificMove(trade.specific_picks[i][1], trade.specific_picks[i][2],
                          trade.specific_picks[i][3], trade.specific_picks[i][4])]
    ELSE [i \in DOMAIN trade.picks |->
             SpecificMove(trade.picks[i][1], trade.picks[i][2],
                          trade.picks[i][3], trade.picks[i][4])]

\* for trade in trades: ... for each of its moves: the moves of a Yahoo
\* table in the order the nested loops reach them.
RECURSIVE YahooSchedule(_)
YahooSchedule(trades) ==
    IF trades = <<>> THEN <<>>
    ELSE YahooMoves(Head(trades)) \o YahooSchedule(Tail(trades))

\* for trade in trades: for move in trade["moves"]
RECURSIVE OffseasonSchedule(_)
OffseasonSchedule(trades) ==
    IF trades = <<>> THEN <<>>
    ELSE Head(trades).moves \o OffseasonSchedule(Tail(trades))

\* The body of the Yahoo loop for one move.
ApplyYahooMove(b, m) ==
    IF m.type = "worst"
    THEN transfer_worst_pick(b, m.round, m.from, m.to)
    ELSE transfer_specific_pick(b, m.round, m.originalOwner, m.from, m.to)

\* The if / elif chain of the offseason loop for one move.
ApplyOffseasonMove(b, m) ==
    CASE m.type = "worst" -> transfer_worst_pick(b, m.round, m.from, m.to)
      [] m.type = "specific_slot" -> transfer_pick(b, m.round, m.slot, m.from, m.to)
      [] m.type = "specific_orig" ->
            transfer_specific_pick(b, m.round, m.originalOwner, m.from, m.to)
      [] OTHER -> [err |-> "none", slot |-> 0, board |-> b]

\* main(): where control goes when a trade table has been applied.
AfterPhase(phase) == IF phase = "yahoo" THEN "offseason" ELSE "export"

\* An except clause that prints the error and falls through.
AfterRaise_no_return(phase) == AfterPhase(phase)

\* main(): except ValueError: print the error; return.
AfterRaise(phase) == "failed"

MoveCall(m) ==
    [op |-> m.type, rd |-> m.round, slot |-> m.slot, orig |-> m.originalOwner,
     from |-> m.from, to |-> m.to]

Schedule(phase) ==
    IF phase = "yahoo" THEN YahooSchedule(input.yahoo)
    ELSE OffseasonSchedule(input.offseason)

\* One pass of a loop body; a ValueError leaves through main's except clause.
Step(phase, r, m) ==
    /\ picks' = r.board
    /\ call' = MoveCall(m)
    /\ ret' = [err |-> r.err, slot |-> r.slot, disc |-> <<>>]
    /\ IF r.err = "none"
       THEN pc' = phase /\ pos' = pos + 1
       ELSE pc' = AfterRaise(phase) /\ pos' = IF AfterRaise(phase) = "failed" THEN pos ELSE 1
    /\ UNCHANGED <<ncalls, site, input, exported>>
    /\ UNCHANGED keeperVars

YahooStep ==
    /\ pc = "yahoo"
    /\ pos <= Len(Schedule("yahoo"))
    /\ Step("yahoo", ApplyYahooMove(picks, Schedule("yahoo")[pos]), Schedule("yahoo")[pos])

OffseasonStep ==
    /\ pc = "offseason"
    /\ pos <= Len(Schedule("offseason"))
    /\ Step("offseason", ApplyOffseasonMove(picks, Schedule("offseason")[pos]),
            Schedule("offseason")[pos])

\* "All 15 Yahoo trades applied successfully", print_owner_summary.
YahooDone ==
    /\ pc = "yahoo"
    /\ pos > Len(Schedule("yahoo"))
    /\ pc' = AfterPhase("yahoo")
    /\ pos' = 1
    /\ UNCHANGED <<picks, call, ret, ncalls, site, input, exported>>
    /\ UNCHANGED keeperVars

OffseasonDone ==
    /\ pc = "offseason"
    /\ pos > Len(Schedule("offseason"))
    /\ pc' = AfterPhase("offseason")
    /\ pos' = 1
    /\ UNCHANGED <<picks, call, ret, ncalls, site, input, exported>>
    /\ UNCHANGED keeperVars

\* Step 4 of main(): result = board.to_json(); json.dump(result, f)
Export ==
    /\ pc = "export"
    /\ exported' = to_json(picks)
    /\ pc' = "compare"
    /\ UNCHANGED <<picks, call, ret, ncalls, site, input, pos>>
    /\ UNCHANGED keeperVars

\* Step 5 of main(): discrepancies = compare_with_site(board, site_path)
Compare ==
    /\ pc = "compare"
    /\ call' = [NoCall EXCEPT !.op = "compare_with_site"]
    /\ ret' = [NoRet EXCEPT !.disc = compare_with_site(picks, site)]
    /\ pc' = "done"
    /\ UNCHANGED <<picks, ncalls, site, input, pos, exported>>
    /\ UNCHANGED keeperVars

\* The run of the script as written.
ReferenceInput ==
    [order |-> DRAFT_ORDER, rounds |-> ROUNDS,
     yahoo |-> Yahoo2025Trades, offseason |-> OffseasonTrades]

\* Generated trade tables on the small league: trades between its first two
\* managers in one odd and one even round, naming any slot or original owner,
\* with MaxMoves moves in the two tables together.
RECURSIVE Tuples(_, _)
Tuples(S, n) ==
    IF n = 0 THEN {<<>>}
    ELSE {Append(t, x) : t \in Tuples(S, n - 1), x \in S}

Directions == {<<SmallOrder[1], SmallOrder[2]>>, <<SmallOrder[2], SmallOrder[1]>>}
TradedRounds == {1, 2}
TradedSlots == 1..NumSlots

WorstTuples == {<<rd, d[1], d[2]>> : rd \in TradedRounds, d \in Directions}

SpecificTuples ==
    {<<rd, o, d[1], d[2]>> : rd \in TradedRounds, o \in Range(SmallOrder), d \in Directions}

SlotMoves ==
    {[type |-> "specific_slot", round |-> rd, slot |-> s, originalOwner |-> "",
      from |-> d[1], to |-> d[2]] : rd \in TradedRounds, s \in TradedSlots, d \in Directions}

OffseasonMovesSmall ==
    {WorstMove(t[1], t[2], t[3]) : t \in WorstTuples}
    \cup SlotMoves
    \cup {SpecificMove(t[1], t[2], t[3], t[4]) : t \in SpecificTuples}

\* One Yahoo trade of n moves, in either of the two forms of the table.
SmallYahoo(n) ==
    IF n = 0 THEN {<<>>}
    ELSE {<<[id |-> "Y1", use_worst |-> FALSE, picks |-> p,
             worst_picks |-> <<>>, specific_picks |-> <<>>]>> :
                p \in Tuples(SpecificTuples, n)}
         \cup UNION {
              {<<[id |-> "Y1", use_worst |-> TRUE, picks |-> <<>>,
                  worst_picks |-> w, specific_picks |-> sp]>> :
                    w \in Tuples(WorstTuples, a), sp \in Tuples(SpecificTuples, n - a)} :
              a \in 1..n}

\* One offseason trade of n moves.
SmallOffseason(n) ==
    IF n = 0 THEN {<<>>}
    ELSE {<<[id |-> "O1", moves |-> ms]>> : ms \in Tuples(OffseasonMovesSmall, n)}

SmallInput(y, o) ==
    [order |-> SmallOrder, rounds |-> NumRounds, yahoo |-> y, offseason |-> o]

InitRun ==
    /\ \/ input = ReferenceInput
       \/ \E a \in 0..MaxMoves : \E b \in 0..(MaxMoves - a) :
          \E y \in SmallYahoo(a) : \E o \in SmallOffseason(b) :
             input = SmallInput(y, o)
    /\ picks = NewBoard(input.order, input.rounds)
    /\ site = to_json(NewBoard(input.order, input.rounds))
    /\ call = NoCall
    /\ ret = NoRet
    /\ ncalls = 0
    /\ pc = "yahoo"
    /\ pos = 1
    /\ exported = "none"
    /\ KeeperIdle

NextRun ==
    \/ YahooStep
    \/ YahooDone
    \/ OffseasonStep
    \/ OffseasonDone
    \/ Export
    \/ Compare

SpecRun == InitRun /\ [][NextRun]_vars

-----------------------------------------------------------------------------
(* Keeper validation: player history and acquisition tracer                 *)
(* (scripts/validate-keeper-costs.py)                                       *)

\* Python's None for a team number (a string) and for a draft round (an int).
NoneTeam == "None"
NoneRound == 0
\* contract_origin = None
NoneEvent == [type |-> "None"]

\* The player ids of the keeper database, and str(yahoo_player_id).
YahooPlayerIds == {10883}
Players == {ToString(n) : n \in YahooPlayerIds}
Teams == {"1", "2"}
DraftRounds == 1..MaxDraftRound

\* A Yahoo team key "<league>.t.<n>"; the empty string is EmptyKey.
LEAGUE_KEY_2025 == "458.l.5221"
TeamKey(n) == [league |-> LEAGUE_KEY_2025, t |-> n]
EmptyKey == [league |-> "", t |-> ""]

get_team_num(team_key) == team_key.t

\* draft_2025 as load_draft_results returns it: player_id -> {round, team_num}.
DraftEntry(rd, team_key) ==
    [round |-> rd, team_key |-> team_key, team_num |-> get_team_num(team_key)]

SmallDrafts ==
    {NoHistory}
    \cup {[pid \in Players |-> DraftEntry(rd, TeamKey(n))] : rd \in DraftRounds, n \in Teams}

\* build_player_history: "Start with draft data".
DraftedHistory(info) ==
    [drafted_round |-> info.round,
     drafted_by |-> info.team_num,
     was_dropped |-> FALSE,
     dropped_by |-> <<>>,
     fa_pickups |-> <<>>,
     trades |-> <<>>,
     last_team |-> info.team_num,
     acquisition_chain |->
        <<[type |-> "draft", round |-> info.round, team |-> info.team_num,
           timestamp |-> 0]>>]

\* build_player_history: "if pid not in history".
UndraftedHistory ==
    [drafted_round |-> NoneRound,
     drafted_by |-> NoneTeam,
     was_dropped |-> FALSE,
     dropped_by |-> <<>>,
     fa_pickups |-> <<>>,
     trades |-> <<>>,
     last_team |-> NoneTeam,
     acquisition_chain |-> <<>>]

StartHistory(draft) ==
    [pid \in DOMAIN draft |-> DraftedHistory(draft[pid])]

TeamOfKey(team_key) ==
    IF team_key # EmptyKey THEN get_team_num(team_key) ELSE NoneTeam

\* The body of build_player_history's loop for one player of one transaction,
\* on that player's record h.
ProcessEntry(h, timestamp, player) ==
    IF player.action = "add" THEN
        IF player.source_type \in {"freeagents", "waivers"} THEN
            [h EXCEPT
                !.fa_pickups = Append(@, [team |-> TeamOfKey(player.dest_team_key),
                                          timestamp |-> timestamp]),
                !.last_team = TeamOfKey(player.dest_team_key),
                !.acquisition_chain =
                    Append(@, [type |-> "fa_pickup",
                               team |-> TeamOfKey(player.dest_team_key),
                               source |-> player.source_type,
                               timestamp |-> timestamp])]
        ELSE h
    ELSE IF player.action = "drop" THEN
        LET source_team ==
                IF player.source_team_key # EmptyKey
                THEN get_team_num(player.source_team_key)
                ELSE h.last_team
        IN  [h EXCEPT
                !.was_dropped = TRUE,
                !.dropped_by = Append(@, source_team),
                !.acquisition_chain =
                    Append(@, [type |-> "drop", team |-> source_team,
                               timestamp |-> timestamp])]
    ELSE IF player.action = "trade" THEN
        [h EXCEPT
            !.trades = Append(@, [from_team |-> TeamOfKey(player.source_team_key),
                                  to_team |-> TeamOfKey(player.dest_team_key),
                                  timestamp |-> timestamp]),
            !.last_team = TeamOfKey(player.dest_team_key),
            !.acquisition_chain =
                Append(@, [type |-> "trade",
                           from_team |-> TeamOfKey(player.source_team_key),
                           to_team |-> TeamOfKey(player.dest_team_key),
                           timestamp |-> timestamp])]
    ELSE h

\* The loop body taking a fresh record for the player at every entry.
ProcessPlayer_restart(hist, timestamp, player) ==
    LET pid == player.player_id
    IN  [q \in DOMAIN hist \cup {pid} |->
            IF q = pid THEN ProcessEntry(UndraftedHistory, timestamp, player) ELSE hist[q]]

ProcessPlayer(hist, timestamp, player) ==
    LET pid == player.player_id
        h == IF pid \in DOMAIN hist THEN hist[pid] ELSE UndraftedHistory
    IN  [q \in DOMAIN hist \cup {pid} |->
            IF q = pid THEN ProcessEntry(h, timestamp, player) ELSE hist[q]]

\* trace_acquisition's first loop: one event of the chain, a draft or pickup
\* starting a contract on the trade as well.
WalkEvent_trade_resets(st, event) ==
    IF event.type = "drop"
    THEN [st EXCEPT !.was_dropped = TRUE, !.current_holder = NoneTeam,
                    !.contract_origin = NoneEvent]
    ELSE [st EXCEPT
            !.current_holder = IF event.type = "trade" THEN event.to_team ELSE event.team,
            !.contract_origin = event]

\* trace_acquisition's first loop: one event of the chain, a drop leaving the
\* contract in force.
WalkEvent_drop_keeps(st, event) ==
    IF event.type \in {"draft", "fa_pickup"} THEN
        [st EXCEPT !.current_holder = event.team, !.contract_origin = event]
    ELSE IF event.type = "drop" THEN
        [st EXCEPT !.was_dropped = TRUE, !.current_holder = NoneTeam]
    ELSE IF event.type = "trade" THEN
        [st EXCEPT !.current_holder = event.to_team]
    ELSE st

\* trace_acquisition's first loop: one event of the chain.
WalkEvent(st, event) ==
    IF event.type = "draft" THEN
        [st EXCEPT !.current_holder = event.team, !.contract_origin = event]
    ELSE IF event.type = "fa_pickup" THEN
        [st EXCEPT !.current_holder = event.team, !.contract_origin = event]
    ELSE IF event.type = "drop" THEN
        [st EXCEPT !.was_dropped = TRUE, !.current_holder = NoneTeam,
                   !.contract_origin = NoneEvent]
    ELSE IF event.type = "trade" THEN
        [st EXCEPT !.current_holder = event.to_team]
    ELSE st

RECURSIVE WalkFrom(_, _, _)
WalkFrom(st, chain, i) ==
    IF i > Len(chain) THEN st
    ELSE WalkFrom(WalkEvent(st, chain[i]), chain, i + 1)

\* The tracer's locals after "for event in chain" (chain not empty).
WalkChain(chain) ==
    WalkFrom([current_holder |-> NoneTeam, was_dropped |-> FALSE,
              contract_origin |-> chain[1]], chain, 1)

\* The scan of the chain run forwards: the first event that brought the player
\* to current_team_num.
RECURSIVE MethodFrom_first(_, _, _)
MethodFrom_first(chain, current_team_num, i) ==
    IF i = 0 THEN "unknown"
    ELSE LET earlier == MethodFrom_first(chain, current_team_num, i - 1)
         IN  IF earlier # "unknown" THEN earlier
             ELSE IF chain[i].type = "draft" /\ chain[i].team = current_team_num
                  THEN "drafted"
             ELSE IF chain[i].type = "fa_pickup" /\ chain[i].team = current_team_num
                  THEN "fa_pickup"
             ELSE IF chain[i].type = "trade" /\ chain[i].to_team = current_team_num
                  THEN "traded"
             ELSE "unknown"

\* "for event in reversed(chain)": how current_team_num got the player.
RECURSIVE MethodFrom(_, _, _)
MethodFrom(chain, current_team_num, i) ==
    IF i = 0 THEN "unknown"
    ELSE IF chain[i].type = "draft" /\ chain[i].team = current_team_num THEN "drafted"
    ELSE IF chain[i].type = "fa_pickup" /\ chain[i].team = current_team_num THEN "fa_pickup"
    ELSE IF chain[i].type = "trade" /\ chain[i].to_team = current_team_num THEN "traded"
    ELSE MethodFrom(chain, current_team_num, i - 1)

trace_acquisition(player_id, current_team_num, hist) ==
    IF player_id \notin DOMAIN hist THEN
        [method |-> "unknown", original_method |-> "unknown",
         draft_round |-> NoneRound, was_dropped_and_reacquired |-> FALSE,
         original_team |-> NoneTeam]
    ELSE IF hist[player_id].acquisition_chain = <<>> THEN
        [method |-> "unknown", original_method |-> "unknown",
         draft_round |-> hist[player_id].drafted_round,
         was_dropped_and_reacquired |-> FALSE,
         original_team |-> hist[player_id].drafted_by]
    ELSE
        LET chain == hist[player_id].acquisition_chain
            st == WalkChain(chain)
            method == MethodFrom(chain, current_team_num, Len(chain))
            origin == st.contract_origin
        IN  [method |-> method,
             original_method |->
                IF origin.type = "draft" THEN "drafted"
                ELSE IF origin.type = "fa_pickup" THEN "fa_pickup"
                ELSE "unknown",
             draft_round |-> IF origin.type = "draft" THEN origin.round ELSE NoneRound,
             was_dropped_and_reacquired |->
                st.was_dropped /\ method \in {"fa_pickup", "traded"},
             original_team |-> hist[player_id].drafted_by,
             contract_origin |-> origin]

\* The history before the first transaction, over a small 2025 draft.
InitKeeper ==
    /\ picks = SmallBoard
    /\ call = NoCall
    /\ ret = NoRet
    /\ ncalls = 0
    /\ site = to_json(SmallBoard)
    /\ input = NoInput
    /\ pc = "keeper"
    /\ pos = 0
    /\ exported = "none"
    /\ draft_2025 \in SmallDrafts
    /\ rosters_2024_end = NoRosters
    /\ keepers_2025 = {}
    /\ transactions_2025 = <<>>
    /\ history = StartHistory(draft_2025)
    /\ txns = 0
    /\ acq = NoAcq
    /\ priced = NoPriced
    /\ report = NoReport

\* The transaction log is one entry shorter where every keeper record is
\* priced on top of it.
TxnBound == IF pc = "validate" THEN MaxTxns - 1 ELSE MaxTxns

\* parse_transactions: the entry of a transaction with one player.
TxnEntry(timestamp, player) == [timestamp |-> timestamp, players |-> <<player>>]

\* One player entry of the next transaction, in timestamp order.
Process(player) ==
    /\ acq = NoAcq
    /\ priced = NoPriced
    /\ txns < TxnBound
    /\ transactions_2025' = Append(transactions_2025, TxnEntry(txns + 1, player))
    /\ history' = ProcessPlayer(history, txns + 1, player)
    /\ txns' = txns + 1
    /\ UNCHANGED <<ledgerVars, runVars, acq, costVars>>

PlayerEntry(pid, action, source_type, source_team_key, dest_team_key) ==
    [player_id |-> pid, action |-> action, source_type |-> source_type,
     source_team_key |-> source_team_key, dest_team_key |-> dest_team_key]

\* An add from the free-agent pool or off waivers.  An add of another
\* source type leaves no event.  The entry is read once the loop has reached
\* its transaction.
TxnAdd ==
    /\ txns < TxnBound
    /\ \E pid \in Players :
        \/ \E source_type \in {"freeagents", "waivers"}, n \in Teams :
              Process(PlayerEntry(pid, "add", source_type, EmptyKey, TeamKey(n)))
        \/ \E n \in Teams :
              Process(PlayerEntry(pid, "add", "team", EmptyKey, TeamKey(n)))

\* A drop, by a named team or with the team key missing.
TxnDrop ==
    /\ txns < TxnBound
    /\ \E pid \in Players :
        \E k \in {TeamKey(n) : n \in Teams} \cup {EmptyKey} :
            Process(PlayerEntry(pid, "drop", "team", k, EmptyKey))

\* A trade from one team to another.
TxnTrade ==
    /\ txns < TxnBound
    /\ \E pid \in Players :
        \E n \in Teams : \E m \in Teams \ {n} :
            Process(PlayerEntry(pid, "trade", "team", TeamKey(n), TeamKey(m)))

\* calculate_keeper_cost: acq = trace_acquisition(yahoo_player_id, team_num, ...)
CallTraceAcquisition ==
    \E pid \in Players, team_num \in Teams :
        /\ acq' = [player_id |-> pid, current_team_num |-> team_num,
                   result |-> trace_acquisition(pid, team_num, history)]
        /\ UNCHANGED <<ledgerVars, runVars, transactions_2025, history, txns, costVars>>

NextKeeper ==
    \/ TxnAdd
    \/ TxnDrop
    \/ TxnTrade
    \/ CallTraceAcquisition

SpecKeeper == InitKeeper /\ [][NextKeeper]_vars

-----------------------------------------------------------------------------
(* Keeper validation: the cost calculator and main()'s loop                 *)

\* ecr_to_round: ranks per round and the last keeper round.
RANKS_PER_ROUND == 12
LAST_KEEPER_ROUND == 23
\* calculate_keeper_cost: the round of a free-agent keeper, and the lowest-
\* ranked player the drop + pickup rule protects.
FA_ROUND == 23
PROTECTED_RANK == 60

\* ecr_lookup found no rank (None).
NoneRank == 0

Min2(a, b) == IF a <= b THEN a ELSE b

\* math.ceil(n / d) for positive integers.
CeilDiv(n, d) == (n + d - 1) \div d

\* ecr_to_round without the cap.
ecr_to_round_uncapped(ecr_rank) ==
    IF ecr_rank = NoneRank THEN NoneRound
    ELSE CeilDiv(ecr_rank, RANKS_PER_ROUND)

ecr_to_round(ecr_rank) ==
    IF ecr_rank = NoneRank THEN NoneRound
    ELSE Min2(CeilDiv(ecr_rank, RANKS_PER_ROUND), LAST_KEEPER_ROUND)

\* ecr_round = ecr_to_round(ecr_rank) if ecr_rank else 23
EcrRound(ecr_rank) ==
    IF ecr_rank # NoneRank THEN ecr_to_round(ecr_rank) ELSE FA_ROUND

\* contract = acq.get("contract_origin")
ContractOf(a) ==
    IF "contract_origin" \in DOMAIN a THEN a.contract_origin ELSE NoneEvent

\* Step 2: is_2025_keeper_for_cost.
KeeperForCost(a, is_2025_keeper) ==
    IF ContractOf(a).type = "fa_pickup" THEN FALSE ELSE is_2025_keeper

\* Step 3, "Describe acquisition": a trace of method unknown takes the draft
\* round of a player found in the 2025 draft.
DescribeAcquisition(a, player_id, draft) ==
    IF a.method = "unknown" /\ player_id \in DOMAIN draft
    THEN [a EXCEPT !.draft_round = draft[player_id].round,
                   !.original_method = "drafted"]
    ELSE a

\* Step 3, "Determine cost", with a first-year drafted keeper priced by rank.
DetermineCost_drafted_by_rank(a, for_cost, ecr_rank, ecr_round, player_id, draft) ==
    IF for_cost \/ a.original_method = "drafted"
    THEN (IF ecr_rank # NoneRank THEN ecr_round ELSE FA_ROUND)
    ELSE IF a.original_method = "fa_pickup" THEN FA_ROUND
    ELSE IF player_id \in DOMAIN draft THEN draft[player_id].round
    ELSE FA_ROUND

\* Step 3, "Determine cost".
DetermineCost(a, for_cost, ecr_rank, ecr_round, player_id, draft) ==
    IF for_cost THEN
        IF ecr_rank # NoneRank THEN ecr_round ELSE FA_ROUND
    ELSE IF a.original_method = "drafted" THEN a.draft_round
    ELSE IF a.original_method = "fa_pickup" THEN FA_ROUND
    ELSE IF player_id \in DOMAIN draft THEN draft[player_id].round
    ELSE FA_ROUND

\* Step 4: Drop + Pickup Protection Rule.
DropProtection(a, ecr_rank, ecr_round, cost) ==
    IF a.was_dropped_and_reacquired \/ ContractOf(a).type = "fa_pickup" THEN
        IF ecr_rank # NoneRank /\ ecr_rank <= PROTECTED_RANK THEN
            LET original_draft == a.draft_round
                protected_cost ==
                    IF original_draft # NoneRound
                    THEN Min2(ecr_round, original_draft)
                    ELSE ecr_round
            IN  IF cost = FA_ROUND /\ protected_cost < FA_ROUND
                THEN protected_cost
                ELSE cost
        ELSE cost
    ELSE cost

\* What calculate_keeper_cost returns without tracing the acquisition.
Untraced(cost, ecr_round) ==
    [cost |-> cost, ecr_round |-> ecr_round, traced |-> FALSE]

\* The statuses priced without the acquisition trace, the 7th keeper going on
\* to the trace like a regular keeper.
SpecialCase_7th_traced(keeper_status, ecr_rank) ==
    IF keeper_status = "keeping-na"
    THEN [special |-> TRUE, calc |-> Untraced(NoneRound, EcrRound(ecr_rank))]
    ELSE [special |-> FALSE, calc |-> Untraced(NoneRound, EcrRound(ecr_rank))]

\* The statuses priced without the acquisition trace, the NA keeper priced
\* by rank as well.
SpecialCase_na_priced(keeper_status, ecr_rank) ==
    IF keeper_status \in {"keeping-na", "keeping-7th"}
    THEN [special |-> TRUE,
          calc |-> Untraced(EcrRound(ecr_rank), EcrRound(ecr_rank))]
    ELSE [special |-> FALSE, calc |-> Untraced(NoneRound, EcrRound(ecr_rank))]

\* "Special cases": the statuses priced without the acquisition trace.
SpecialCase(keeper_status, ecr_rank) ==
    IF keeper_status = "keeping-na"
    THEN [special |-> TRUE, calc |-> Untraced(NoneRound, EcrRound(ecr_rank))]
    ELSE IF keeper_status = "keeping-7th"
    THEN [special |-> TRUE,
          calc |-> Untraced(IF ecr_rank = NoneRank THEN FA_ROUND ELSE EcrRound(ecr_rank),
                            IF ecr_rank = NoneRank THEN FA_ROUND ELSE EcrRound(ecr_rank))]
    ELSE [special |-> FALSE, calc |-> Untraced(NoneRound, EcrRound(ecr_rank))]

\* calculate_keeper_cost, returning the cost with the locals it came from
\* (the reasoning string is not modelled).
calculate_keeper_cost(keeper, ecr_rank, draft, kept, hist) ==
    LET player_id == keeper.yahoo_player_id
        team_num == get_team_num(keeper.yahoo_team_key)
        ecr_round == EcrRound(ecr_rank)
        case == SpecialCase(keeper.keeper_status, ecr_rank)
    IN  IF case.special THEN case.calc
        ELSE
            LET traced == trace_acquisition(player_id, team_num, hist)
                is_2025_keeper == player_id \in kept
                for_cost == KeeperForCost(traced, is_2025_keeper)
                a == DescribeAcquisition(traced, player_id, draft)
                cost == DetermineCost(a, for_cost, ecr_rank, ecr_round, player_id, draft)
            IN  [cost |-> DropProtection(a, ecr_rank, ecr_round, cost),
                 ecr_round |-> ecr_round,
                 traced |-> TRUE,
                 trace |-> traced,
                 acq |-> a,
                 is_2025_keeper |-> is_2025_keeper,
                 is_2025_keeper_for_cost |-> for_cost,
                 cost_before_protection |-> cost]

\* The loop body without the two skip branches: a record without a cost is
\* compared with the persisted cost like any other.
Tally_skip_compared(rep, keeper, calc_cost) ==
    IF calc_cost = keeper.keeper_cost_round
    THEN [rep EXCEPT !.matches = @ + 1]
    ELSE [rep EXCEPT
            !.mismatches = @ + 1,
            !.corrections = Append(@, [yahoo_player_id |-> keeper.yahoo_player_id,
                                       team_key |-> keeper.yahoo_team_key,
                                       keeper_status |-> keeper.keeper_status,
                                       current_cost |-> keeper.keeper_cost_round,
                                       correct_cost |-> calc_cost])]

\* The body of main()'s loop after the cost is calculated: the counters and
\* the correction record.
Tally(rep, keeper, calc_cost) ==
    IF keeper.keeper_status = "keeping-na" THEN [rep EXCEPT !.skipped = @ + 1]
    ELSE IF calc_cost = NoneRound THEN [rep EXCEPT !.skipped = @ + 1]
    ELSE IF calc_cost = keeper.keeper_cost_round
    THEN [rep EXCEPT !.matches = @ + 1]
    ELSE [rep EXCEPT
            !.mismatches = @ + 1,
            !.corrections = Append(@, [yahoo_player_id |-> keeper.yahoo_player_id,
                                       team_key |-> keeper.yahoo_team_key,
                                       keeper_status |-> keeper.keeper_status,
                                       current_cost |-> keeper.keeper_cost_round,
                                       correct_cost |-> calc_cost])]

\* Keeper records of the database and the ranks the lookup returns for them.
Statuses == {"keeping", "keeping-7th", "keeping-na"}
PersistedCosts == {2, 23}
SampleRanks == {NoneRank, 20, 30, 60, 61, 300}
Ranks == IF pc = "rank" THEN 0..MaxRank ELSE SampleRanks

KeeperRecord(n, team_key, keeper_status, keeper_cost_round) ==
    [yahoo_player_id |-> ToString(n), yahoo_team_key |-> team_key,
     keeper_status |-> keeper_status, keeper_cost_round |-> keeper_cost_round]

\* One pass of main()'s loop over the keeper records.
ValidateKeeper ==
    /\ priced = NoPriced
    /\ \E n \in YahooPlayerIds, t \in Teams, keeper_status \in Statuses,
          db_cost \in PersistedCosts, ecr_rank \in Ranks :
          LET keeper == KeeperRecord(n, TeamKey(t), keeper_status, db_cost)
              calc == calculate_keeper_cost(keeper, ecr_rank, draft_2025,
                                            keepers_2025, history)
          IN  /\ priced' = [keeper |-> keeper, ecr_rank |-> ecr_rank, calc |-> calc]
              /\ report' = Tally(report, keeper, calc.cost)
              /\ acq' = IF calc.traced
                        THEN [player_id |-> keeper.yahoo_player_id,
                              current_team_num |-> t, result |-> calc.trace]
                        ELSE acq
    /\ UNCHANGED <<ledgerVars, runVars, transactions_2025, history, txns, draft_2025,
                   rosters_2024_end, keepers_2025>>

\* Drafts with the player taken in the first of the reserved rounds.
ReservedDrafts ==
    {[pid \in Players |-> DraftEntry(NA_ROUNDS[1], TeamKey(n))] : n \in Teams}

\* The data main() has loaded before it builds the history: a small 2025
\* draft and the 2025 keepers among its players.
InitLoaded(at) ==
    /\ picks = SmallBoard
    /\ call = NoCall
    /\ ret = NoRet
    /\ ncalls = 0
    /\ site = to_json(SmallBoard)
    /\ input = NoInput
    /\ pc = at
    /\ pos = 0
    /\ exported = "none"
    /\ draft_2025 \in SmallDrafts \cup ReservedDrafts
    /\ rosters_2024_end = NoRosters
    /\ keepers_2025 \in SUBSET DOMAIN draft_2025
    /\ transactions_2025 = <<>>
    /\ history = StartHistory(draft_2025)
    /\ txns = 0
    /\ acq = NoAcq
    /\ priced = NoPriced
    /\ report = NoReport

InitCost == InitLoaded("validate")

NextCost ==
    \/ TxnAdd
    \/ TxnDrop
    \/ TxnTrade
    \/ ValidateKeeper

SpecCost == InitCost /\ [][NextCost]_vars

\* Keeper records priced over every rank, on the history of the draft alone.
InitRank == InitLoaded("rank")

NextRank == ValidateKeeper

SpecRank == InitRank /\ [][NextRank]_vars

-----------------------------------------------------------------------------
(* Keeper validation: the keepers of 2025                                   *)

\* The players of the rosters and the draft, and the order in which
\* rosters_2024_end.items() yields the teams.
RosterPlayers == {"10883", "11370"}
TeamOrder == <<"1", "2">>

\* Method 1: on a team's end-of-2024 roster and in the 2025 draft for that team.
SameTeamKeepers(draft, rosters) ==
    {pid \in UNION {rosters[t] : t \in DOMAIN rosters} :
        /\ pid \in DOMAIN draft
        /\ \E team_num \in DOMAIN rosters :
              pid \in rosters[team_num] /\ draft[pid].team_num = team_num}

\* pid_to_2024_team[pid]: the last team, in iteration order, rostering pid.
pid_to_2024_team(rosters, pid) ==
    TeamOrder[SetMax({i \in DOMAIN TeamOrder :
                        TeamOrder[i] \in DOMAIN rosters /\ pid \in rosters[TeamOrder[i]]})]

\* Method 2: on some end-of-2024 roster and in the 2025 draft for another team.
OtherTeamKeepers(draft, rosters, found) ==
    {pid \in UNION {rosters[t] : t \in DOMAIN rosters} :
        /\ pid \notin found
        /\ pid \in DOMAIN draft
        /\ pid_to_2024_team(rosters, pid) # draft[pid].team_num}

\* identify_2025_keepers: the set it returns (keeper_details is not modelled).
identify_2025_keepers(draft, rosters) ==
    LET found == SameTeamKeepers(draft, rosters)
    IN  found \cup OtherTeamKeepers(draft, rosters, found)

\* Drafts of some of the roster players, and rosters holding each player on at
\* most one team.
RosterDrafts ==
    UNION {[S -> {DraftEntry(rd, TeamKey(n)) : rd \in DraftRounds, n \in Teams}] :
              S \in SUBSET RosterPlayers}

Rosters2024 ==
    {r \in [Teams -> SUBSET RosterPlayers] :
        \A t \in Teams : \A u \in Teams \ {t} : r[t] \cap r[u] = {}}

\* main() after steps 1 and 2: the draft and the rosters are loaded.
InitIdentify ==
    /\ picks = SmallBoard
    /\ call = NoCall
    /\ ret = NoRet
    /\ ncalls = 0
    /\ site = to_json(SmallBoard)
    /\ input = NoInput
    /\ pc = "identify"
    /\ pos = 0
    /\ exported = "none"
    /\ draft_2025 \in RosterDrafts
    /\ rosters_2024_end \in Rosters2024
    /\ keepers_2025 = {}
    /\ transactions_2025 = <<>>
    /\ history = NoHistory
    /\ txns = 0
    /\ acq = NoAcq
    /\ priced = NoPriced
    /\ report = NoReport

\* Step 3 of main(): keepers_2025, keeper_details = identify_2025_keepers(...)
Identify2025Keepers ==
    /\ pc = "identify"
    /\ keepers_2025' = identify_2025_keepers(draft_2025, rosters_2024_end)
    /\ pc' = "history"
    /\ UNCHANGED <<ledgerVars, input, pos, exported, transactions_2025, history, txns,
                   acq, draft_2025, rosters_2024_end, priced, report>>

\* Step 4 of main(): history = build_player_history(...), before its loop.
StartBuildHistory ==
    /\ pc = "history"
    /\ history' = StartHistory(draft_2025)
    /\ pc' = "built"
    /\ UNCHANGED <<ledgerVars, input, pos, exported, transactions_2025, txns, acq,
                   costVars>>

NextIdentify ==
    \/ Identify2025Keepers
    \/ StartBuildHistory

SpecIdentify == InitIdentify /\ [][NextIdentify]_vars

-----------------------------------------------------------------------------
(* Properties of the ledger *)

OwnedSlots(b, owner, rd) == {s \in SlotsOf(b, rd) : b[rd][s].currentOwner = owner}

RECURSIVE SumOwned(_, _, _)
SumOwned(b, rd, managers) ==
    IF managers = {} THEN 0
    ELSE LET m == CHOOSE x \in managers : TRUE IN
         Cardinality(OwnedSlots(b, m, rd)) + SumOwned(b, rd, managers \ {m})

SomePickMoved == \E rd \in RoundsOf(picks) : \E s \in SlotsOf(picks, rd) :
                     Len(picks[rd][s].path) > 1

\* C1: after any sequence of transfer calls, successful or failing, the
\* (round, slot) pairs are those of the initial grid and in every round the
\* picks owned, summed over the managers, number the league size.
C1_PickConservation ==
    /\ RoundsOf(picks) = 1..NumRounds
    /\ \A rd \in RoundsOf(picks) :
          /\ SlotsOf(picks, rd) = 1..NumSlots
          /\ SumOwned(picks, rd, Range(SmallOrder)) = NumSlots

C1_Witness ==
    /\ SomePickMoved
    /\ call.op \in {"transfer_worst_pick", "transfer_specific_pick"}
    /\ ret.err # "none"

\* C2: transfer_pick on a pick whose currentOwner is not `from` raises the
\* ownership conflict and leaves every pick of the ledger as it was.
C2_ConflictLeavesLedger ==
    [][(/\ call'.op = "transfer_pick"
        /\ ncalls' = ncalls + 1
        /\ picks[call'.rd][call'.slot].currentOwner # call'.from)
       => (ret'.err = "OwnershipConflict" /\ picks' = picks)]_vars

C2_Witness ==
    /\ call.op = "transfer_pick"
    /\ ret.err = "OwnershipConflict"
    /\ SomePickMoved

\* C4: get_worst_pick returns a slot the manager owns in the round: the
\* highest such slot in an odd round, the lowest in an even round.
C4_WorstPick ==
    (call.op = "get_worst_pick" /\ ret.err = "none") =>
        LET owned == OwnedSlots(picks, call.from, call.rd) IN
        /\ ret.slot \in owned
        /\ call.rd % 2 = 1 => \A s \in owned : s <= ret.slot
        /\ call.rd % 2 = 0 => \A s \in owned : s >= ret.slot

C4_Witness ==
    /\ call.op = "get_worst_pick"
    /\ ret.err = "none"
    /\ call.rd % 2 = 0
    /\ Cardinality(OwnedSlots(picks, call.from, call.rd)) = 2
    /\ ret.slot = 1

\* C5: a successful transfer_pick sets the pick's currentOwner to `to`,
\* appends `to` to its path, keeps its originalOwner and leaves every other
\* pick as it was.
C5_TransferFrame ==
    [][(/\ call'.op = "transfer_pick"
        /\ ncalls' = ncalls + 1
        /\ ret'.err = "none")
       => (/\ picks'[call'.rd][call'.slot] =
                [originalOwner |-> picks[call'.rd][call'.slot].originalOwner,
                 currentOwner  |-> call'.to,
                 path          |-> Append(picks[call'.rd][call'.slot].path, call'.to)]
           /\ \A rd \in RoundsOf(picks) : \A s \in SlotsOf(picks, rd) :
                 <<rd, s>> # <<call'.rd, call'.slot>> => picks'[rd][s] = picks[rd][s]
           /\ RoundsOf(picks') = RoundsOf(picks))]_vars

C5_Witness ==
    /\ call.op = "transfer_pick"
    /\ ret.err = "none"
    /\ Len(picks[call.rd][call.slot].path) = 3

\* C7: transfer_worst_pick fails exactly when `from` owns no pick in the
\* round, with NoPicksHeld and the ledger unchanged; otherwise it moves the
\* worst pick of `from` to `to` and raises no ownership conflict.
C7_TransferWorst ==
    [][(call'.op = "transfer_worst_pick" /\ ncalls' = ncalls + 1) =>
        LET owned == OwnedSlots(picks, call'.from, call'.rd) IN
        /\ owned = {} => (ret'.err = "NoPicksHeld" /\ picks' = picks)
        /\ owned # {} =>
              /\ ret'.err = "none"
              /\ ret'.slot \in owned
              /\ picks'[call'.rd][ret'.slot].currentOwner = call'.to]_vars

C7_Witness ==
    /\ call.op = "transfer_worst_pick"
    /\ ret.err = "NoPicksHeld"

\* C8: transfer_specific_pick moves the first pick, in slot order, of the
\* round whose originalOwner is the one named and whose currentOwner is
\* `from`; when the round has no such pick it fails with NoMatchingPick and
\* leaves the ledger unchanged.
C8_TransferSpecific ==
    [][(call'.op = "transfer_specific_pick" /\ ncalls' = ncalls + 1) =>
        LET cand == {s \in SlotsOf(picks, call'.rd) :
                        /\ picks[call'.rd][s].originalOwner = call'.orig
                        /\ picks[call'.rd][s].currentOwner = call'.from} IN
        /\ cand = {} => (ret'.err = "NoMatchingPick" /\ picks' = picks)
        /\ cand # {} =>
              /\ ret'.err = "none"
              /\ ret'.slot = SetMin(cand)
              /\ picks' = [picks EXCEPT
                              ![call'.rd][ret'.slot].currentOwner = call'.to,
                              ![call'.rd][ret'.slot].path = Append(@, call'.to)]]_vars

C8_Witness ==
    /\ call.op = "transfer_specific_pick"
    /\ ret.err = "none"
    /\ call.orig # call.from
    /\ picks[call.rd][ret.slot].path = <<call.orig, call.from, call.to>>

C8_WitnessNoMatch ==
    /\ call.op = "transfer_specific_pick"
    /\ ret.err = "NoMatchingPick"
    /\ SomePickMoved

\* C9: compare_with_site returns one record for each (round, slot) whose
\* currentOwner in the ledger differs from the snapshot's, carrying that round
\* and slot and the two owners, and no other record.
Mismatches ==
    {rs \in {<<rd, s>> : rd \in RoundsOf(picks), s \in 1..NumSlots} :
        picks[rs[1]][rs[2]].currentOwner # site.picks[ToString(rs[1])][rs[2]].currentOwner}

C9_ComparatorExact ==
    call.op = "compare_with_site" =>
        /\ Len(ret.disc) = Cardinality(Mismatches)
        /\ {<<ret.disc[i].round, ret.disc[i].slot>> : i \in DOMAIN ret.disc} = Mismatches
        /\ \A i \in DOMAIN ret.disc :
              /\ ret.disc[i].script_says = picks[ret.disc[i].round][ret.disc[i].slot].currentOwner
              /\ ret.disc[i].site_says =
                    site.picks[ToString(ret.disc[i].round)][ret.disc[i].slot].currentOwner

C9_Witness ==
    /\ call.op = "compare_with_site"
    /\ Len(ret.disc) = 1
    /\ picks = SmallBoard

C9_WitnessIdentical ==
    /\ call.op = "compare_with_site"
    /\ ret.disc = <<>>
    /\ site = to_json(picks)


\* ---------------------------------------------------------------------------
\* Properties of the run
\* ---------------------------------------------------------------------------

\* The moves of the two tables in the order main() reaches them.
AllMoves == YahooSchedule(input.yahoo) \o OffseasonSchedule(input.offseason)

NumYahooMoves == Len(YahooSchedule(input.yahoo))

ApplyAt(b, i) ==
    IF i <= NumYahooMoves THEN ApplyYahooMove(b, AllMoves[i])
    ELSE ApplyOffseasonMove(b, AllMoves[i])

\* Index of the first move of AllMoves, from i on, that raises on board b and
\* its successors; 0 when none does.
RECURSIVE FirstFailure(_, _)
FirstFailure(b, i) ==
    IF i > Len(AllMoves) THEN 0
    ELSE IF ApplyAt(b, i).err # "none" THEN i
    ELSE FirstFailure(ApplyAt(b, i).board, i + 1)

\* The board after moves i..k, each applied to the result of the one before.
RECURSIVE BoardAfter(_, _, _)
BoardAfter(b, i, k) ==
    IF i > k THEN b
    ELSE BoardAfter(ApplyAt(b, i).board, i + 1, k)

FreshBoard == NewBoard(input.order, input.rounds)

FirstFail == FirstFailure(FreshBoard, 1)

\* C3: the replay of the hardcoded tables (the 15 Yahoo 2025 trades, then the
\* offseason trades OS0..OS13) on a fresh 27 x 12 board raises no move failure,
\* so the run never leaves through main's except clause.
C3_ReferenceReplaySucceeds ==
    input = ReferenceInput => pc # "failed" /\ ret.err = "none"

\* C6: moves are applied one at a time in table order; the run is at every
\* moment on the board obtained from the moves before its position, a failed
\* move ends the run on the board the earlier moves left (no rollback, no later
\* move applied), and a run with a failed move neither exports a snapshot nor
\* runs the comparison.
C6_HaltOnFirstFailure ==
    /\ pc = "yahoo" =>
          /\ FirstFail = 0 \/ FirstFail >= pos
          /\ picks = BoardAfter(FreshBoard, 1, pos - 1)
    /\ pc = "offseason" =>
          /\ FirstFail = 0 \/ FirstFail >= NumYahooMoves + pos
          /\ picks = BoardAfter(FreshBoard, 1, NumYahooMoves + pos - 1)
    /\ pc = "failed" =>
          /\ FirstFail # 0
          /\ ret.err # "none"
          /\ call = MoveCall(AllMoves[FirstFail])
          /\ picks = BoardAfter(FreshBoard, 1, FirstFail - 1)
    /\ pc \in {"export", "compare", "done"} =>
          /\ FirstFail = 0
          /\ picks = BoardAfter(FreshBoard, 1, Len(AllMoves))
    /\ ret.err # "none" => pc = "failed"
    /\ FirstFail # 0 => exported = "none" /\ ret.disc = <<>>

\* A run halted by a move that follows an applied move and precedes another.
C6_Witness ==
    /\ pc = "failed"
    /\ FirstFail > 1
    /\ FirstFail < Len(AllMoves)
    /\ picks # FreshBoard


\* ---------------------------------------------------------------------------
\* Properties of the acquisition tracer
\* ---------------------------------------------------------------------------

\* The chain of the player the last trace_acquisition call was about.
TracedChain ==
    IF acq.player_id \in DOMAIN history
    THEN history[acq.player_id].acquisition_chain
    ELSE <<>>

\* Events k+1.. of the traced chain exist and are all trades.
TradesAfter(k) ==
    /\ k < Len(TracedChain)
    /\ \A j \in (k + 1)..Len(TracedChain) : TracedChain[j].type = "trade"

\* The history with the traced player's chain cut after its k-th event.
HistoryBefore(k) ==
    [history EXCEPT ![acq.player_id].acquisition_chain = SubSeq(@, 1, k)]

\* C10: the contract origin survives trades.  When the traced chain ends in
\* trade events that follow a draft or fa_pickup, the tracer returns the
\* original_method and draft_round it returns for the chain without those
\* trades, which are those of that draft or pickup, and the holder it tracks
\* is the receiving team of the last trade.
C10_OriginSurvivesTrades ==
    acq # NoAcq =>
        \A k \in 1..Len(TracedChain) :
            TradesAfter(k) /\ TracedChain[k].type \in {"draft", "fa_pickup"} =>
                LET before == trace_acquisition(acq.player_id, acq.current_team_num,
                                                HistoryBefore(k))
                IN  /\ acq.result.original_method = before.original_method
                    /\ acq.result.draft_round = before.draft_round
                    /\ acq.result.original_method =
                          (IF TracedChain[k].type = "draft" THEN "drafted" ELSE "fa_pickup")
                    /\ acq.result.draft_round =
                          (IF TracedChain[k].type = "draft" THEN TracedChain[k].round
                           ELSE NoneRound)
                    /\ WalkChain(TracedChain).current_holder =
                          TracedChain[Len(TracedChain)].to_team

\* A drafted player traded twice, traced for the team that holds him now.
C10_Witness ==
    /\ acq # NoAcq
    /\ Len(TracedChain) = 3
    /\ TracedChain[1].type = "draft"
    /\ TradesAfter(1)
    /\ acq.result.method = "traded"
    /\ acq.result.original_method = "drafted"
    /\ acq.result.draft_round = TracedChain[1].round

\* A free-agent pickup traded on.
C10_WitnessPickup ==
    /\ acq # NoAcq
    /\ \E k \in 1..Len(TracedChain) :
          TradesAfter(k) /\ TracedChain[k].type = "fa_pickup"
    /\ acq.result.original_method = "fa_pickup"


\* Positions of the traced chain holding an event of the given type.
EventsOfType(type) == {i \in 1..Len(TracedChain) : TracedChain[i].type = type}

\* Positions of the pickups that follow the last drop of the traced chain.
PickupsAfterLastDrop ==
    {i \in EventsOfType("fa_pickup") : i > SetMax(EventsOfType("drop"))}

\* C11: the contract origin resets on a drop.  For a traced chain with a drop:
\* when a fa_pickup follows the last drop the origin is a pickup that follows
\* it (original_method fa_pickup, no draft round), the very next one when it is
\* the only one; when none follows, the tracer reports original_method unknown
\* and no origin.
C11_OriginResetsOnDrop ==
    acq # NoAcq /\ EventsOfType("drop") # {} =>
        IF PickupsAfterLastDrop = {}
        THEN /\ acq.result.original_method = "unknown"
             /\ acq.result.draft_round = NoneRound
             /\ acq.result.contract_origin = NoneEvent
        ELSE /\ acq.result.original_method = "fa_pickup"
             /\ acq.result.draft_round = NoneRound
             /\ acq.result.contract_origin \in {TracedChain[i] : i \in PickupsAfterLastDrop}
             /\ Cardinality(PickupsAfterLastDrop) = 1 =>
                   acq.result.contract_origin = TracedChain[SetMin(PickupsAfterLastDrop)]

\* A drafted player dropped and picked up again by the other team.
C11_Witness ==
    /\ acq # NoAcq
    /\ Len(TracedChain) = 3
    /\ TracedChain[1].type = "draft"
    /\ TracedChain[2].type = "drop"
    /\ TracedChain[3].type = "fa_pickup"
    /\ TracedChain[3].team # TracedChain[1].team
    /\ acq.result.original_method = "fa_pickup"

\* A drafted player whose chain ends in a drop.
C11_WitnessUnresolved ==
    /\ acq # NoAcq
    /\ Len(TracedChain) = 2
    /\ TracedChain[1].type = "draft"
    /\ TracedChain[2].type = "drop"
    /\ acq.result.original_method = "unknown"

\* The team an event brings the player to; a drop brings him to none.
Destination(event) ==
    IF event.type \in {"draft", "fa_pickup"} THEN event.team
    ELSE IF event.type = "trade" THEN event.to_team
    ELSE ""

Classification(event) ==
    IF event.type = "draft" THEN "drafted"
    ELSE IF event.type = "fa_pickup" THEN "fa_pickup"
    ELSE "traded"

\* Positions of the events that brought the player to the traced team.
Acquisitions ==
    {i \in 1..Len(TracedChain) : Destination(TracedChain[i]) = acq.current_team_num}

\* C19: method is the classification of the last event of the chain whose
\* destination is the current holder, and unknown when there is none.
C19_MethodIsLastAcquisition ==
    acq # NoAcq =>
        acq.result.method =
            (IF Acquisitions = {} THEN "unknown"
             ELSE Classification(TracedChain[SetMax(Acquisitions)]))

\* The holder acquired the player twice, in two different ways.
C19_Witness ==
    /\ acq # NoAcq
    /\ Cardinality(Acquisitions) >= 2
    /\ Classification(TracedChain[SetMin(Acquisitions)])
          # Classification(TracedChain[SetMax(Acquisitions)])
    /\ acq.result.method = Classification(TracedChain[SetMax(Acquisitions)])

\* A chain that never brings the player to the traced team.
C19_WitnessUnknown ==
    /\ acq # NoAcq
    /\ TracedChain # <<>>
    /\ Acquisitions = {}
    /\ acq.result.method = "unknown"

\* C20: was_dropped_and_reacquired is true exactly when a drop precedes the
\* current holder's acquisition event; it is false when every drop follows
\* that acquisition and when the chain has no drop.
C20_DroppedBeforeAcquisition ==
    acq # NoAcq =>
        acq.result.was_dropped_and_reacquired =
            (/\ Acquisitions # {}
             /\ \E d \in EventsOfType("drop") : d < SetMax(Acquisitions))


\* ---------------------------------------------------------------------------
\* Properties of the cost calculator
\* ---------------------------------------------------------------------------

\* The chain and the draft round of the player the last keeper record names.
PricedId == priced.keeper.yahoo_player_id

PricedChain ==
    IF PricedId \in DOMAIN history THEN history[PricedId].acquisition_chain ELSE <<>>

PricedDrops == {i \in 1..Len(PricedChain) : PricedChain[i].type = "drop"}

PricedDraftRound ==
    IF PricedId \in DOMAIN draft_2025 THEN draft_2025[PricedId].round ELSE NoneRound

Keeping == priced # NoPriced /\ priced.keeper.keeper_status = "keeping"

\* A pickup in the chain follows a drop with no other acquisition between.
PickupsFollowDrops ==
    \A i \in 2..Len(PricedChain) :
        PricedChain[i].type = "fa_pickup" =>
            \E d \in PricedDrops :
                /\ d < i
                /\ \A j \in (d + 1)..(i - 1) : PricedChain[j].type = "trade"

\* min(ceil(rank / L), M) for a defined rank, M for an undefined one: the
\* least round whose RANKS_PER_ROUND-th player is ranked rank or later, capped.
RankToRound(rank) ==
    IF rank = NoneRank THEN LAST_KEEPER_ROUND
    ELSE Min2(CHOOSE k \in 1..rank :
                 /\ RANKS_PER_ROUND * k >= rank
                 /\ RANKS_PER_ROUND * (k - 1) < rank,
              LAST_KEEPER_ROUND)

\* C12: drop-protection.  A regular keeper traced as dropped and reacquired
\* and ranked in the top 5 * L is never priced at the waiver-tier round M, and
\* when the player's original draft round is known the cost is
\* min(rankToRound(rank), original draft round).
C12_DropProtection ==
    /\ Keeping
    /\ priced.calc.trace.was_dropped_and_reacquired
    /\ priced.ecr_rank \in 1..PROTECTED_RANK
    => /\ priced.calc.cost # FA_ROUND
       /\ PricedDraftRound # NoneRound =>
             priced.calc.cost = Min2(RankToRound(priced.ecr_rank), PricedDraftRound)

\* C13: a first-year keeper whose contract origin is the draft event, with no
\* drop in the chain, costs the round of that draft event, trades or not.
C13_FirstYearDrafted ==
    /\ Keeping
    /\ PricedId \notin keepers_2025
    /\ priced.calc.trace.original_method = "drafted"
    /\ PricedDrops = {}
    => /\ priced.calc.cost = PricedChain[1].round
       /\ priced.calc.cost = priced.calc.cost_before_protection

\* A drafted player kept by the team he was traded to.
C13_Witness ==
    /\ Keeping
    /\ PricedId \notin keepers_2025
    /\ Len(PricedChain) = 2
    /\ PricedChain[1].type = "draft"
    /\ PricedChain[2].type = "trade"
    /\ priced.calc.trace.method = "traded"
    /\ priced.ecr_rank = 300
    /\ priced.calc.cost = PricedChain[1].round

\* C14: a first-year keeper whose contract origin is a fa_pickup costs M, and
\* one whose origin is unknown costs M as well, before the drop-protection
\* rule.
C14_UndraftedContractCostsM ==
    /\ Keeping
    /\ PickupsFollowDrops
    /\ PricedId \notin keepers_2025
    /\ priced.calc.trace.original_method \in {"fa_pickup", "unknown"}
    => priced.calc.cost_before_protection = FA_ROUND

\* C15: a keeping-7th record costs rankToRound(rank), M when the rank is
\* undefined, whatever the chain, the draft round and the 2025 keeper status.
C15_SeventhKeeper ==
    priced # NoPriced /\ priced.keeper.keeper_status = "keeping-7th" =>
        priced.calc.cost = RankToRound(priced.ecr_rank)

\* Rank 30 costs round 3 for a 2025 keeper drafted in round 1 and dropped.
C15_Witness ==
    /\ priced # NoPriced
    /\ priced.keeper.keeper_status = "keeping-7th"
    /\ priced.ecr_rank = 30
    /\ priced.calc.cost = 3
    /\ PricedId \in keepers_2025
    /\ PricedDraftRound = 1
    /\ PricedDrops # {}

\* C16: for a regular keeper the market-value rule is applied exactly when
\* the player was kept in 2025 and the chain holds no drop; a 2025 keeper with
\* a drop in the chain is priced by the first-year rules.
C16_ContinuingKeeper ==
    Keeping /\ PickupsFollowDrops =>
        /\ priced.calc.is_2025_keeper_for_cost =
              (PricedId \in keepers_2025 /\ PricedDrops = {})
        /\ PricedId \in keepers_2025 /\ PricedDrops = {} =>
              priced.calc.cost = RankToRound(priced.ecr_rank)

\* C17: the round of a rank is min(ceil(rank / L), M) for every defined rank,
\* a value in 1..M, and M when no rank is available.
C17_RankToRound ==
    priced # NoPriced =>
        /\ priced.calc.ecr_round = RankToRound(priced.ecr_rank)
        /\ priced.calc.ecr_round \in 1..LAST_KEEPER_ROUND
        /\ priced.ecr_rank # NoneRank =>
              ecr_to_round(priced.ecr_rank) = priced.calc.ecr_round

\* A rank past the last keeper round, and no rank.
C17_Witness ==
    /\ priced # NoPriced
    /\ priced.ecr_rank > RANKS_PER_ROUND * LAST_KEEPER_ROUND
    /\ priced.calc.ecr_round = LAST_KEEPER_ROUND

C17_WitnessNoRank ==
    /\ priced # NoPriced
    /\ priced.ecr_rank = NoneRank
    /\ priced.keeper.keeper_status = "keeping-7th"
    /\ priced.calc.cost = LAST_KEEPER_ROUND

\* C18: a keeping-na record has no cost, whatever the rank and the chain; it
\* is counted as skipped and leaves no correction record, whatever its
\* persisted cost.
C18_NAKeeper ==
    priced # NoPriced /\ priced.keeper.keeper_status = "keeping-na" =>
        /\ priced.calc.cost = NoneRound
        /\ report = [NoReport EXCEPT !.skipped = 1]

\* An NA record of a ranked, traded player.
C18_Witness ==
    /\ priced # NoPriced
    /\ priced.keeper.keeper_status = "keeping-na"
    /\ priced.ecr_rank = 20
    /\ \E i \in 1..Len(PricedChain) : PricedChain[i].type = "trade"
    /\ report.skipped = 1


\* ---------------------------------------------------------------------------
\* Properties of the history builder
\* ---------------------------------------------------------------------------

\* The chain the builder holds for a player (none for a player it never met).
ChainOf(pid) ==
    IF pid \in DOMAIN history THEN history[pid].acquisition_chain ELSE <<>>

\* A drop whose entry names no source team.
UnnamedTeam == "?"

\* The event a movement of the log stands for: none for an add that is not
\* from free agents or waivers.
MovementEvents(timestamp, player) ==
    IF player.action = "add" /\ player.source_type \in {"freeagents", "waivers"}
    THEN <<[type |-> "fa_pickup", team |-> player.dest_team_key.t,
            source |-> player.source_type, timestamp |-> timestamp]>>
    ELSE IF player.action = "drop"
    THEN <<[type |-> "drop",
            team |-> IF player.source_team_key = EmptyKey THEN UnnamedTeam
                     ELSE player.source_team_key.t,
            timestamp |-> timestamp]>>
    ELSE IF player.action = "trade"
    THEN <<[type |-> "trade", from_team |-> player.source_team_key.t,
            to_team |-> player.dest_team_key.t, timestamp |-> timestamp]>>
    ELSE <<>>

\* The movements of player pid in entries i.. of the log, in log order.
RECURSIVE MovementsFrom(_, _)
MovementsFrom(pid, i) ==
    IF i > Len(transactions_2025) THEN <<>>
    ELSE LET txn == transactions_2025[i]
             player == txn.players[1]
         IN  (IF player.player_id = pid
              THEN MovementEvents(txn.timestamp, player)
              ELSE <<>>) \o MovementsFrom(pid, i + 1)

\* The synthetic draft event of a drafted player.
DraftSeed(pid) ==
    IF pid \in DOMAIN draft_2025
    THEN <<[type |-> "draft", round |-> draft_2025[pid].round,
            team |-> draft_2025[pid].team_num, timestamp |-> 0]>>
    ELSE <<>>

\* An event of the chain is the expected one; a drop of an unnamed team is
\* expected as a drop at that timestamp.
SameEvent(event, expected) ==
    IF expected.type = "drop" /\ expected.team = UnnamedTeam
    THEN event.type = "drop" /\ event.timestamp = expected.timestamp
    ELSE event = expected

C21_WitnessUndrafted ==
    \E pid \in Players :
        /\ pid \notin DOMAIN draft_2025
        /\ Len(ChainOf(pid)) = 2
        /\ ChainOf(pid)[1].type = "fa_pickup"
        /\ ChainOf(pid)[2].type = "drop"


\* ---------------------------------------------------------------------------
\* Properties of the validation run
\* ---------------------------------------------------------------------------

\* C22: corrections are reported, never applied.  A pass of the validation
\* loop appends a correction record exactly when the computed cost is not
\* null and differs from the persisted cost, with current_cost the persisted
\* cost and correct_cost the computed one, for the keeper record as it was
\* loaded; the transaction log, the acquisition chains, the draft and the
\* 2025 keepers are left as they were.
C22_CorrectionsReportedOnly ==
    [][priced' # priced =>
        LET keeper == priced'.keeper
            cost == priced'.calc.cost
        IN  /\ keeper.keeper_cost_round \in PersistedCosts
            /\ IF cost # NoneRound /\ cost # keeper.keeper_cost_round
               THEN /\ Len(report'.corrections) = Len(report.corrections) + 1
                    /\ SubSeq(report'.corrections, 1, Len(report.corrections))
                          = report.corrections
                    /\ LET c == report'.corrections[Len(report'.corrections)]
                       IN  /\ c.current_cost = keeper.keeper_cost_round
                           /\ c.correct_cost = cost
                           /\ c.yahoo_player_id = keeper.yahoo_player_id
                           /\ c.team_key = keeper.yahoo_team_key
               ELSE report'.corrections = report.corrections
            /\ history' = history
            /\ transactions_2025' = transactions_2025
            /\ draft_2025' = draft_2025
            /\ keepers_2025' = keepers_2025]_vars

\* A traded player priced at his draft round against a persisted round 23.
C22_Witness ==
    /\ Keeping
    /\ Len(report.corrections) = 1
    /\ report.corrections[1].current_cost = 23
    /\ report.corrections[1].correct_cost = 1
    /\ report.mismatches = 1
    /\ \E i \in 1..Len(PricedChain) : PricedChain[i].type = "trade"

\* A computed cost equal to the persisted one leaves no correction.
C22_WitnessMatch ==
    /\ Keeping
    /\ priced.calc.cost = priced.keeper.keeper_cost_round
    /\ report = [NoReport EXCEPT !.matches = 1]


\* ---------------------------------------------------------------------------
\* Properties of the snapshot
\* ---------------------------------------------------------------------------

\* A ledger rebuilt from a snapshot: for each round 1..rounds the entries of
\* picks[str(round)], each placed at the slot it carries.
from_json(snapshot) ==
    [rd \in 1..snapshot.rounds |->
        LET lst == snapshot.picks[ToString(rd)] IN
        [slot \in {lst[i].slot : i \in DOMAIN lst} |->
            [originalOwner |-> SitePick(snapshot, rd, slot).originalOwner,
             currentOwner  |-> SitePick(snapshot, rd, slot).currentOwner,
             path          |-> SitePick(snapshot, rd, slot).path]]]

\* C23: snapshot round trip.  The ledger rebuilt from the snapshot a run
\* exported has the rounds and slots of the ledger and, for every (round,
\* slot), its currentOwner and its path, whatever transfers the run applied.
C23_SnapshotRoundTrip ==
    pc \in {"compare", "done"} =>
        LET rebuilt == from_json(exported) IN
        /\ RoundsOf(rebuilt) = RoundsOf(picks)
        /\ \A rd \in RoundsOf(picks) :
              /\ SlotsOf(rebuilt, rd) = SlotsOf(picks, rd)
              /\ \A slot \in SlotsOf(picks, rd) :
                    /\ rebuilt[rd][slot].currentOwner = picks[rd][slot].currentOwner
                    /\ rebuilt[rd][slot].path = picks[rd][slot].path

\* A run that exported a ledger with a pick moved away and back again.
C23_Witness ==
    /\ pc = "done"
    /\ \E rd \in RoundsOf(picks) : \E slot \in SlotsOf(picks, rd) :
          /\ Len(picks[rd][slot].path) = 3
          /\ from_json(exported)[rd][slot].path = picks[rd][slot].path
          /\ from_json(exported)[rd][slot].currentOwner = picks[rd][slot].originalOwner

\* A run that exported a ledger with a pick held by another manager.
C23_WitnessTraded ==
    /\ pc = "done"
    /\ \E rd \in RoundsOf(picks) : \E slot \in SlotsOf(picks, rd) :
          /\ Len(picks[rd][slot].path) = 2
          /\ from_json(exported)[rd][slot].currentOwner # picks[rd][slot].originalOwner


\* ---------------------------------------------------------------------------
\* Properties of replays
\* ---------------------------------------------------------------------------

\* A move list with the moves at positions i and j exchanged.
Swap(moves, i, j) ==
    [k \in DOMAIN moves |->
        IF k = i THEN moves[j] ELSE IF k = j THEN moves[i] ELSE moves[k]]

\* Positions i and j lie in the same trade table.
SameTable(i, j) == (i <= NumYahooMoves) = (j <= NumYahooMoves)

\* The replay of a move list from position i on board b, each move applied
\* by the loop of the table its position lies in: the position of the move
\* that raised (0 when none did) and the board the replay ended on.
RECURSIVE ReplayFrom(_, _, _)
ReplayFrom(b, moves, i) ==
    IF i > Len(moves) THEN [failed_at |-> 0, board |-> b]
    ELSE LET r == IF i <= NumYahooMoves THEN ApplyYahooMove(b, moves[i])
                  ELSE ApplyOffseasonMove(b, moves[i])
         IN  IF r.err # "none" THEN [failed_at |-> i, board |-> b]
             ELSE ReplayFrom(r.board, moves, i + 1)

\* Who holds each pick.
OwnershipGrid(b) ==
    [rd \in RoundsOf(b) |-> [slot \in SlotsOf(b, rd) |-> b[rd][slot].currentOwner]]

\* C25: mis-ordered trades are caught, not absorbed.  For a trade list whose
\* replay completed, the replay of the list with two moves of a table
\* exchanged either raises a move failure, at the first exchanged move or
\* later, or ends in the ownership grid of the replay in the right order.
C25_MisorderedCaught ==
    pc = "done" =>
        \A i \in 1..Len(AllMoves) : \A j \in (i + 1)..Len(AllMoves) :
            SameTable(i, j) =>
                LET r == ReplayFrom(FreshBoard, Swap(AllMoves, i, j), 1)
                IN  \/ r.failed_at >= i
                    \/ r.failed_at = 0 /\ OwnershipGrid(r.board) = OwnershipGrid(picks)


\* ---------------------------------------------------------------------------
\* Shape of the ledger
\* ---------------------------------------------------------------------------

TransferOps == {"transfer_pick", "transfer_worst_pick", "transfer_specific_pick"}

\* The step is a successful transfer of the pick at (rd, slot).
Transferred(rd, slot) ==
    /\ ncalls' = ncalls + 1
    /\ call'.op \in TransferOps
    /\ ret'.err = "none"
    /\ call'.rd = rd
    /\ ret'.slot = slot

\* Every pick is held by the manager at its slot's draft position and has
\* never moved.
ShapeAtStart ==
    \A rd \in RoundsOf(picks) : \A slot \in SlotsOf(picks, rd) :
        picks[rd][slot] = [originalOwner |-> SmallOrder[slot],
                           currentOwner  |-> SmallOrder[slot],
                           path          |-> <<SmallOrder[slot]>>]

ShapeNow ==
    \A rd \in RoundsOf(picks) : \A slot \in SlotsOf(picks, rd) :
        LET pick == picks[rd][slot] IN
        /\ pick.originalOwner = SmallOrder[slot]
        /\ Len(pick.path) >= 1
        /\ pick.path[1] = pick.originalOwner
        /\ pick.path[Len(pick.path)] = pick.currentOwner

\* A successful transfer of a pick appends one manager to its path; any
\* other step leaves the path as it was.
ShapeStep ==
    \A rd \in RoundsOf(picks) : \A slot \in SlotsOf(picks, rd) :
        /\ picks'[rd][slot].originalOwner = picks[rd][slot].originalOwner
        /\ IF Transferred(rd, slot)
           THEN picks'[rd][slot].path = Append(picks[rd][slot].path, call'.to)
           ELSE picks'[rd][slot].path = picks[rd][slot].path

\* C26: ledger shape.  Initially every pick has originalOwner = currentOwner
\* = the manager at its slot's draft position and path = [originalOwner]; in
\* every reachable state originalOwner is unchanged, the path starts with
\* originalOwner and ends with currentOwner, and the path grows by one append
\* at each successful transfer of the pick and at no other step, so that its
\* length is 1 plus the number of successful transfers of the pick.
C26_LedgerShape ==
    /\ ShapeAtStart
    /\ []ShapeNow
    /\ [][ShapeStep]_vars

\* Two successful worst-pick transfers of one pick.
C26_Witness ==
    /\ ncalls = 2
    /\ call.op = "transfer_worst_pick"
    /\ ret.err = "none"
    /\ \E rd \in RoundsOf(picks) : \E slot \in SlotsOf(picks, rd) :
          /\ Len(picks[rd][slot].path) = 3
          /\ picks[rd][slot].path[2] # picks[rd][slot].path[3]

\* A failed transfer after a successful one: one path of length 2.
C26_WitnessFailed ==
    /\ ncalls = 2
    /\ call.op \in TransferOps
    /\ ret.err # "none"
    /\ \E rd \in RoundsOf(picks) : \E slot \in SlotsOf(picks, rd) :
          Len(picks[rd][slot].path) = 2


\* The picks of round rd that transfer_specific_pick's test accepts.
Candidates(rd, original_owner, from_owner) ==
    {slot \in SlotsOf(picks, rd) :
        /\ picks[rd][slot].originalOwner = original_owner
        /\ picks[rd][slot].currentOwner = from_owner}

\* C27: original-owner references are never ambiguous.  In every state
\* reached from the initial grid by transfers, for every round, original
\* owner and sender at most one pick of the round has that original owner and
\* is held by that sender.
C27_AtMostOneCandidate ==
    \A rd \in RoundsOf(picks) :
        \A original_owner \in ManagersOf(picks) : \A from_owner \in ManagersOf(picks) :
            Cardinality(Candidates(rd, original_owner, from_owner)) <= 1

\* After two transfers by original owner a manager holds two picks of a
\* round, one of them his own from the start.
C27_Witness ==
    /\ call.op = "transfer_specific_pick"
    /\ ret.err = "none"
    /\ ncalls = 2
    /\ \E m \in ManagersOf(picks) : \E rd \in RoundsOf(picks) :
          /\ Cardinality(OwnedSlots(picks, m, rd)) = 2
          /\ Cardinality(Candidates(rd, m, m)) = 1


\* C28: after the builder has processed a drop, and until it processes a later
\* fa_pickup or trade of the player, the player's recorded team is cleared.
C28_DropClearsTeam ==
    \A pid \in DOMAIN history :
        LET chain == history[pid].acquisition_chain IN
        (chain # <<>> /\ chain[Len(chain)].type = "drop") =>
            history[pid].last_team = NoneTeam


\* ---------------------------------------------------------------------------
\* Properties of the keeper identification
\* ---------------------------------------------------------------------------

\* C29: a player is in the 2025-keeper set if and only if the player was on
\* some team's end-of-2024 roster and appears in the 2025 draft for that same
\* team; a player rostered by one team and drafted by another is not in it.
C29_KeptBySameTeam ==
    pc \in {"history", "built"} =>
        \A pid \in RosterPlayers :
            pid \in keepers_2025 <=>
                /\ pid \in DOMAIN draft_2025
                /\ \E team_num \in DOMAIN rosters_2024_end :
                      /\ pid \in rosters_2024_end[team_num]
                      /\ draft_2025[pid].team_num = team_num


\* C30: every cost the calculator returns, when it returns one, lies between
\* round 1 and the last keeper round M, for every status, rank, 2025 keeper
\* set and chain, players drafted in a reserved round included.
C30_CostRange ==
    (priced # NoPriced /\ priced.calc.cost # NoneRound) =>
        priced.calc.cost \in 1..LAST_KEEPER_ROUND

====
